---- MODULE Spec2Model ----
(***************************************************************************)
(* Model of the chunked streaming cache of lumin (src/src/cache).          *)
(*                                                                         *)
(* Byte quantities are in KiB (1 unit = 1024 bytes); every offset and size *)
(* used below is a multiple of 1 KiB.  Timestamps are in seconds.          *)
(*                                                                         *)
(* Tasks run on a multi-threaded runtime, so every access to an atomic     *)
(* (cached), to a chunk guard (downloading) or to the backing file is a    *)
(* step of its own; purely local computation is folded into the step of    *)
(* the shared access that follows it.                                      *)
(***************************************************************************)
EXTENDS Integers, Sequences, FiniteSets, TLC

\* ------------------------------------------------------------------ bounds
NumChunks == 2          \* chunks of file 1 (the file the readers read)
NumReaders == 2         \* read_bytes calls over a behaviour
MaxTasks == 2           \* download tasks alive at the same time
MaxAttempts == 2        \* attempts of one download task the model follows
AttemptCap == 4         \* the attempt counter of a download is exact below this value
MaxTime == 5            \* horizon of the clock, seconds
LastSweep == 3          \* the sweeper is followed until the clock shows this
NumOpeners == 3         \* upsert_entry calls over a behaviour
MaxSleep == 7           \* the clock of a retrying download is followed this far, seconds
MaxLoadChunks == 5      \* chunks of the largest file CacheEntry::load is called with
NumCallers == 3         \* get_download_link calls over a behaviour
MaxTouches == 4        \* get_reader calls on one Readers value
MaxLinkTime == 21002    \* the clock of the link cache is followed this far, seconds

\* ------------------------------------------------------- program constants
DEFAULT_CHUNK_SIZE == 8192                  \* chunk.rs:19, 8 MiB in KiB
MAX_CONCURRENT_REQUESTS == 6                \* ratelimiter.rs:10
READ_AHEAD_START_BYTES == 24576             \* entry.rs:34, 24 MiB in KiB
READ_AHEAD_TARGET_BYTES == 65536            \* entry.rs:35, 64 MiB in KiB
RESPONSE_ERROR_RETRIES == <<1, 5, 30>>      \* downloader.rs:20
STREAM_ERROR_RETRIES == <<5, 30>>           \* downloader.rs:21
FETCH_ERROR_RETRIES == <<5>>                \* downloader.rs:22
RATELIMIT_PENALTY_SECS == 5                 \* downloader.rs:46,50
URL_TTL_SECS == 10500                       \* debrid.rs:293, 175 minutes
MAX_READER_MERGE_GAP == 16384               \* reader.rs:3, 16 MiB in KiB
READ_AHEAD_TIERS ==                         \* entry.rs:40-51
    << [after_reading_secs |-> 0, when_secs_until_uncached |-> 10, then_buffer_secs |-> 60],
       [after_reading_secs |-> 30, when_secs_until_uncached |-> 30, then_buffer_secs |-> 120] >>

\* chunk.rs:21-25
PRIORITY_RANGES ==
    << [lo |-> 0, hi |-> 20, priority |-> "High"],
       [lo |-> 21, hi |-> 95, priority |-> "Low"],
       [lo |-> 96, hi |-> 100, priority |-> "Medium"] >>

\* ChunkPriority, chunk.rs:27-36: the derived Ord is the declaration order.
ChunkPriority ==
    [GracePeriod |-> 0, Preloaded |-> 1, FirstChunk |-> 2, LastChunk |-> 3,
     High |-> 4, Medium |-> 5, Low |-> 6]

\* ------------------------------------------------------------ configuration
\* config.rs:21-22 (seconds), scaled to the horizon of the clock
cache_grace_period_secs == 2
cache_sweep_interval_secs == 1
\* config.rs:19-20 and the check of config.rs:69, scaled to the two small
\* files of the model: the headroom between target and max is one chunk.
cache_target_size == 2 * DEFAULT_CHUNK_SIZE
cache_max_size == 3 * DEFAULT_CHUNK_SIZE

\* ------------------------------------------------------------------- files
\* Files 1 and 2 fill the cache of the sweeper; files 3 and 4 are the files
\* of 80 MiB and 32 MiB of the worked examples.
CacheFiles == {1, 2}
Files == CacheFiles \cup {3, 4}
\* torrent_files::Model.size: file 1 ends in three quarters of a chunk,
\* file 2 has four chunks more and ends in a quarter chunk; the sizes of
\* files 3 and 4 are multiples of the chunk size.
file_size(f) ==
    CASE f = 1 -> (NumChunks - 1) * DEFAULT_CHUNK_SIZE + 3 * (DEFAULT_CHUNK_SIZE \div 4)
      [] f = 2 -> (NumChunks + 3) * DEFAULT_CHUNK_SIZE + DEFAULT_CHUNK_SIZE \div 4
      [] f = 3 -> 10 * DEFAULT_CHUNK_SIZE
      [] f = 4 -> 4 * DEFAULT_CHUNK_SIZE

total_chunks(f) == (file_size(f) + DEFAULT_CHUNK_SIZE - 1) \div DEFAULT_CHUNK_SIZE

get_chunk_size_from_index(index, fsize) ==
    LET total == (fsize + DEFAULT_CHUNK_SIZE - 1) \div DEFAULT_CHUNK_SIZE
    IN  IF index = total - 1 THEN fsize % DEFAULT_CHUNK_SIZE ELSE DEFAULT_CHUNK_SIZE

\* Chunk::new, chunk.rs:50-61: offset and size of chunk i of file f.
chunk_offset(i) == i * DEFAULT_CHUNK_SIZE
chunk_size(f, i) == get_chunk_size_from_index(i, file_size(f))

Indexes(f) == 0 .. (total_chunks(f) - 1)
ChunkKeys == UNION {{<<f, i>> : i \in Indexes(f)} : f \in Files}

Tasks == 1 .. MaxTasks
ReaderIds == 1 .. NumReaders
Callers == 1 .. NumCallers
Flushers == Tasks \cup {0}       \* the download tasks and, as 0, the sweeper task
OpenIds == 1 .. NumOpeners
\* One caller of Ratelimiter::wait more than there are permits.
Clients == 1 .. (MAX_CONCURRENT_REQUESTS + 1)

\* Holders of a chunk guard (Chunk.downloading, a tokio Mutex).
Free == <<"free", 0>>
ByTask(t) == <<"task", t>>
ByProbe(r) == <<"probe", r>>
BySweeper == <<"sweeper", 0>>

Max(a, b) == IF a >= b THEN a ELSE b
Min(a, b) == IF a <= b THEN a ELSE b

RECURSIVE SortedSeq(_)
\* chunks.sort_by_key(|c| c.index); chunks.dedup(), entry.rs:385-387
SortedSeq(S) ==
    IF S = {} THEN <<>>
    ELSE LET m == CHOOSE x \in S : \A y \in S : x <= y
         IN  <<m>> \o SortedSeq(S \ {m})

VARIABLES
    chunk_preload,      \* Config.chunk_preload, config.rs:8; <<>> is None
    entries,            \* Cache.entries: per file id the CacheEntry instance, 0 is none
    cached,             \* Chunk.cached, per chunk key
    downloading,        \* Chunk.downloading: the holder of the guard
    accessed_at_secs,   \* Chunk.accessed_at_secs
    disk,               \* extent of <id>.bin under the chunk: hole, partial, data
    bin_exists,         \* <id>.bin exists
    meta,               \* <id>.cachemeta: [exists, cached (set of indexes)]
    duration_hint_secs, \* CacheEntry.duration_hint_secs, 0 is None
    readers,            \* CacheEntry.readers: sequence of [position, bytes_read]
    rd,                 \* the read_bytes calls
    tasks,              \* the download tasks
    permits,            \* tasks holding a permit of Ratelimiter.semaphore
    ratelimited_until,  \* Ratelimiter.ratelimited_until, 0 is unset
    now,                \* the clock
    failed,             \* history: all, the chunks ever left unpublished by a fatal
                        \* failure; open, those no queue_chunks call has taken since
    assert_failed,      \* history: debug_assert of entry.rs:402 was false
    sw,                 \* the sweeper task of Cache::start_sweeper
    db_files,           \* ids of the torrent_files rows of the metadata store
    op,                 \* the upsert_entry calls
    created,            \* history: number of CacheEntry instances created by load
    ld,                 \* a CacheEntry::load call that builds a chunk vector
    ra,                 \* a get_read_ahead_chunks call that sizes the read-ahead
    lk,                 \* Debrid::get_download_link: url_cache, url_mutex and the calls
    fl,                 \* the flush_cache_meta calls in progress, per calling task
    boot,               \* Cache::load: the directory scan at start-up
    pr,                 \* a Chunk::get_priority call
    tl,                 \* history: the get_reader calls on the Readers of file 3
    cl                  \* the callers of Ratelimiter::wait

vars == <<chunk_preload, entries, cached, downloading, accessed_at_secs, disk, bin_exists, meta,
          duration_hint_secs, readers, rd, tasks, permits, ratelimited_until, now,
          failed, assert_failed, sw, db_files, op, created, ld, ra, lk, fl, boot, pr, tl, cl>>

sweepvars == <<sw, db_files>>
openvars == <<op, created, ld, ra, lk, fl, boot, pr, tl>>

\* ------------------------------------------------------------------ Chunk
\* Chunk::is_cached_or_downloading, chunk.rs:111-122
is_cached_or_downloading(k) == cached[k] \/ downloading[k] # Free

\* ----------------------------------------------------------------- Reader
\* Reader::matches, reader.rs:21-28
matches(reader, offset) ==
    LET gap == IF reader.position >= offset THEN reader.position - offset
               ELSE offset - reader.position
    IN  ~(gap > MAX_READER_MERGE_GAP)

\* Readers::get_reader with the last matching reader in place of the first.
get_reader_last(list, offset, size) ==
    LET hits == {i \in 1 .. Len(list) : matches(list[i], offset)}
    IN  IF hits # {}
        THEN LET i == CHOOSE j \in hits : \A h \in hits : j >= h
             IN  [list |-> [list EXCEPT ![i] = [position |-> offset + size,
                                                 bytes_read |-> @.bytes_read + size]],
                  at |-> i]
        ELSE [list |-> Append(list, [position |-> offset + size, bytes_read |-> size]),
              at |-> Len(list) + 1]

\* Readers::get_reader, reader.rs:49-62: the updated list and the index of
\* the reader that was updated or appended.
get_reader(list, offset, size) ==
    LET hits == {i \in 1 .. Len(list) : matches(list[i], offset)}
    IN  IF hits # {}
        THEN LET i == CHOOSE j \in hits : \A h \in hits : j <= h
             IN  [list |-> [list EXCEPT ![i] = [position |-> offset + size,
                                                 bytes_read |-> @.bytes_read + size]],
                  at |-> i]
        ELSE [list |-> Append(list, [position |-> offset + size, bytes_read |-> size]),
              at |-> Len(list) + 1]

\* Offsets and sizes of the get_reader calls, KiB: offsets 10 MiB, 17 MiB
\* (16 MiB past the end of a first read of 1 MiB), 20 MiB and 40 MiB apart,
\* reads of 1 MiB and of 17 MiB.
TouchOffsets == {0, 10240, 17408, 20480, 40960}
TouchSizes == {1024, 17408}

\* entry.rs:268: self.readers.get_reader(offset, size) on the entry of
\* file 3, the call of reader.rs:49-62.
Touch(offset, size) ==
    /\ Len(tl) < MaxTouches
    /\ readers' = [readers EXCEPT ![3] = get_reader(@, offset, size).list]
    /\ tl' = Append(tl, [offset |-> offset, size |-> size])
    /\ UNCHANGED <<sweepvars, op, created, ld, ra, lk, fl, boot, pr, cl, chunk_preload, entries,
                   cached, downloading, accessed_at_secs, disk, bin_exists, meta,
                   duration_hint_secs, rd, tasks, permits, ratelimited_until, now,
                   failed, assert_failed>>

\* ------------------------------------------------------------- CacheEntry
\* CacheEntry::get_preload_chunks, entry.rs:165-186 (called with preload set)
get_preload_chunks(f) ==
    LET total == total_chunks(f)
    IN  IF total <= chunk_preload[1] + chunk_preload[2] + 1
        THEN Indexes(f)
        ELSE (0 .. chunk_preload[1]) \cup ((total - chunk_preload[2]) .. (total - 1))

\* A lookup that always takes the first tier.
read_ahead_tier_first(seconds_read) == 1

\* The index in READ_AHEAD_TIERS of the tier chosen by entry.rs:199-203.
read_ahead_tier(seconds_read) ==
    LET ok == {i \in 1 .. Len(READ_AHEAD_TIERS) :
                    seconds_read >= READ_AHEAD_TIERS[i].after_reading_secs}
    IN  CHOOSE i \in ok : \A j \in ok : j <= i

\* entry.rs:195: file.size / duration_hint_secs in bytes per second, for a
\* size given in KiB: (1024 * fsize) / hint without the large product.
bytes_per_sec(fsize, hint) ==
    1024 * (fsize \div hint) + (1024 * (fsize % hint)) \div hint

\* entry.rs:196: reader_bytes_read / bytes_per_sec, bytes_read given in KiB.
seconds_read(bytes_read, bps) == (1024 * bytes_read) \div bps

\* entry.rs:193-215 for a file of fsize KiB: <<trigger chunks, target chunks>>
read_ahead_for(fsize, hint, bytes_read) ==
    LET bps == bytes_per_sec(fsize, hint)
        tier == READ_AHEAD_TIERS[read_ahead_tier(seconds_read(bytes_read, bps))]
        trigger == IF hint > 0 THEN bps * tier.when_secs_until_uncached
                   ELSE 1024 * READ_AHEAD_START_BYTES
        target == IF hint > 0 THEN bps * tier.then_buffer_secs
                  ELSE 1024 * READ_AHEAD_TARGET_BYTES
    IN  << Max(trigger \div (1024 * DEFAULT_CHUNK_SIZE), 1),
           Max(target \div (1024 * DEFAULT_CHUNK_SIZE), 2) >>

\* entry.rs:193-215: <<trigger chunks, target chunks>> of the entry of file f
read_ahead_sizes(f, reader_bytes_read) ==
    read_ahead_for(file_size(f), duration_hint_secs[f], reader_bytes_read)

\* CacheEntry::get_read_ahead_chunks, entry.rs:188-262: the set of indexes
\* to add; {} stands for both None and Some(empty).
get_read_ahead_chunks(f, current_chunk_idx, reader_bytes_read) ==
    LET sz == read_ahead_sizes(f, reader_bytes_read)
        trigger_start_idx == current_chunk_idx + 1
        triggered == \E i \in trigger_start_idx .. (trigger_start_idx + sz[1] - 1) :
                        i \in Indexes(f) /\ ~is_cached_or_downloading(<<f, i>>)
    IN  IF triggered
        THEN {i \in trigger_start_idx .. (trigger_start_idx + sz[2] - 1) :
                    i \in Indexes(f) /\ ~is_cached_or_downloading(<<f, i>>)}
        ELSE {}

\* entry.rs:267-328: the chunk indexes read_bytes hands to queue_chunks.
chunks_to_queue(f, offset, size, reader_bytes_read) ==
    LET start_chunk_index == offset \div DEFAULT_CHUNK_SIZE
        end_chunk_index == (offset + size - 1) \div DEFAULT_CHUNK_SIZE
        covering == start_chunk_index .. end_chunk_index
        preload_end_index == total_chunks(f) - chunk_preload[2]
        preload == IF chunk_preload # <<>>
                      /\ (start_chunk_index <= chunk_preload[1]
                          \/ end_chunk_index >= preload_end_index)
                   THEN get_preload_chunks(f) \ covering
                   ELSE {}
        is_in_preload == preload # {}
        force_read_ahead == (end_chunk_index + 1) \in Indexes(f)
                            /\ ~is_cached_or_downloading(<<f, end_chunk_index + 1>>)
        read_ahead == IF ~is_in_preload \/ force_read_ahead
                      THEN get_read_ahead_chunks(f, end_chunk_index, reader_bytes_read)
                      ELSE {}
    IN  covering \cup preload \cup read_ahead

\* ------------------------------------------------------------ read_bytes
IdleRead == [pc |-> "idle", f |-> 0, offset |-> 0, size |-> 0, queue |-> <<>>,
             batch |-> 0, wait |-> <<>>, lock_ok |-> FALSE, observed |-> {},
             result |-> "none", bytes |-> <<>>,
             entry |-> 0,                         \* the CacheEntry instance (self)
             spawned |-> 0,                       \* history: pinch_chunk_batch calls
             queued |-> {}, batches |-> {},       \* history: chunks_to_queue, batches spawned
             doomed |-> {}, concurrent |-> FALSE, \* history, see waiting_on and in_flight_for
             retry |-> {},    \* history: chunks of the plan a failed download had left
             at |-> 0]        \* history: the clock when the call began

\* The classifications get_backoff retries, downloader.rs:45-62: 429, a failed
\* connection, a transient status (ResponseError(_, true)) and a broken body.
Retryable == {<<"Ratelimited", 0>>, <<"FetchError", 0>>, <<"ResponseError", 1>>,
              <<"StreamError", 0>>}

\* A flush_cache_meta call: f the entry, i the chunk serde_json::to_writer
\* is at, val the flag it has read for that chunk; result is history, the
\* outcome of the last call of the task.
IdleFlush == [pc |-> "idle", f |-> 0, i |-> 0, val |-> FALSE, result |-> "none"]

NoTask == [pc |-> "none", f |-> 0, lo |-> 0, hi |-> 0, attempts |-> 0,
           written |-> 0, partial |-> FALSE, k |-> 0, sleep |-> 0,
           entry |-> 0,     \* the CacheEntry instance of the chunks
           since |-> 0,     \* the time the last failed attempt ended
           hint |-> -1,     \* history: the retry hint of that attempt, -1 without one
           last |-> <<>>,   \* history: the classification of that attempt's error
           errs |-> [c \in Retryable |-> 0]]  \* history: errors so far, by classification

start_chunk_index(r) == rd[r].offset \div DEFAULT_CHUNK_SIZE
end_chunk_index(r) == (rd[r].offset + rd[r].size - 1) \div DEFAULT_CHUNK_SIZE
\* A wait for every chunk the call has queued.
necessary_chunks_queued(r) == rd[r].queued

\* necessary_chunks, entry.rs:334
necessary_chunks(r) == start_chunk_index(r) .. end_chunk_index(r)

\* History: when the read_bytes call r for (f, offset, size) starts, another
\* call for the same range has left queue_chunks and waits, and every chunk
\* covering the range is uncached with its guard owned by a download task.
in_flight_for(r, f, offset, size) ==
    /\ \E q \in ReaderIds \ {r} :
          /\ rd[q].pc \in {"w_lock", "w_load"}
          /\ rd[q].f = f /\ rd[q].offset = offset /\ rd[q].size = size
    /\ \A c \in (offset \div DEFAULT_CHUNK_SIZE) .. ((offset + size - 1) \div DEFAULT_CHUNK_SIZE) :
          ~cached[<<f, c>>] /\ downloading[<<f, c>>][1] = "task"

\* entry.rs:264-330: touch the reader tracker, build chunks_to_queue and
\* enter queue_chunks with the sorted, de-duplicated list.
ReadStart(r, f, offset, size) ==
    /\ rd[r].pc = "idle"
    /\ \A q \in ReaderIds : q < r => rd[q].pc # "idle"   \* calls are numbered in order of arrival
    /\ entries[f] # 0
    /\ offset + size <= file_size(f)
    /\ LET got == get_reader(readers[f], offset, size)
           snapshot == got.list[got.at]
       IN  /\ readers' = [readers EXCEPT ![f] = got.list]
           /\ rd' = [rd EXCEPT ![r] =
                  [IdleRead EXCEPT !.pc = "q_load", !.f = f, !.entry = entries[f],
                                   !.offset = offset,
                                   !.size = size,
                                   !.concurrent = in_flight_for(r, f, offset, size),
                                   !.at = now,
                                   !.retry = {c \in chunks_to_queue(f, offset, size,
                                                                    snapshot.bytes_read) :
                                                  <<f, c>> \in failed.open},
                                   !.queued = chunks_to_queue(f, offset, size,
                                                              snapshot.bytes_read),
                                   !.queue = SortedSeq(chunks_to_queue(f, offset, size,
                                                            snapshot.bytes_read))]]
    /\ UNCHANGED <<sweepvars, openvars, cl, chunk_preload, entries, cached, downloading, accessed_at_secs, disk,
                   bin_exists, meta, duration_hint_secs, tasks, permits,
                   ratelimited_until, now, failed, assert_failed>>

\* pinch_chunk_batch, entry.rs:428-440: the batch a reader is building is the
\* task in state "building"; spawning it makes it runnable.
pinch_chunk_batch(tk, b) == IF b # 0 THEN [tk EXCEPT ![b].pc = "start"] ELSE tk

\* The end of one iteration of the loop of queue_chunks (entry.rs:390-423):
\* after the last chunk the remaining batch is spawned and wait_for_chunks
\* starts on the necessary chunks.
QueueNext(r, tk, b, d, bs) ==
    LET rest == Tail(rd[r].queue)
    IN  IF rest = <<>>
        THEN /\ rd' = [rd EXCEPT ![r].queue = rest, ![r].batch = 0, ![r].pc = "w_lock",
                                 ![r].wait = SortedSeq(necessary_chunks(r)),
                                 ![r].spawned = IF b # 0 THEN d + 1 ELSE d,
                                 ![r].batches = IF b # 0 THEN bs \cup {<<tk[b].lo, tk[b].hi>>}
                                                ELSE bs]
             /\ tasks' = pinch_chunk_batch(tk, b)
        ELSE /\ rd' = [rd EXCEPT ![r].queue = rest, ![r].batch = b, ![r].pc = "q_load",
                                 ![r].spawned = d, ![r].batches = bs]
             /\ tasks' = tk

\* entry.rs:391-394: chunk.cached.load; a cached chunk is skipped.
QueueLoad(r) ==
    /\ rd[r].pc = "q_load"
    /\ LET k == <<rd[r].f, Head(rd[r].queue)>>
       IN  IF cached[k]
           THEN QueueNext(r, tasks, rd[r].batch, rd[r].spawned, rd[r].batches)
           ELSE /\ rd' = [rd EXCEPT ![r].pc = "q_lock"]
                /\ UNCHANGED tasks
    /\ UNCHANGED <<sweepvars, openvars, cl, chunk_preload, entries, cached, downloading, accessed_at_secs, disk,
                   bin_exists, meta, duration_hint_secs, readers, permits,
                   ratelimited_until, now, failed, assert_failed>>

\* A chunk that goes into the batch without its guard.
try_lock_owned_dropped(k, t) == downloading

\* entry.rs:396 and 418: the guard try_lock_owned returned for chunk k is
\* pushed into the batch of task t, which owns it from then on.
try_lock_owned(k, t) == [downloading EXCEPT ![k] = ByTask(t)]

\* entry.rs:396-418: try_lock_owned; a held guard skips the chunk, a free one
\* is taken into the current batch, which is spawned first when the chunk
\* does not continue it.
QueueLock(r) ==
    /\ rd[r].pc = "q_lock"
    /\ LET f == rd[r].f
           c == Head(rd[r].queue)
           k == <<f, c>>
           b == rd[r].batch
       IN  IF downloading[k] # Free
           THEN /\ QueueNext(r, tasks, b, rd[r].spawned, rd[r].batches)
                /\ UNCHANGED <<downloading, assert_failed, failed>>
           ELSE LET contiguous == b # 0 /\ tasks[b].hi = c - 1
                    pinched == IF contiguous THEN tasks ELSE pinch_chunk_batch(tasks, b)
                    d1 == IF b # 0 /\ ~contiguous THEN rd[r].spawned + 1 ELSE rd[r].spawned
                    bs1 == IF b # 0 /\ ~contiguous
                           THEN rd[r].batches \cup {<<tasks[b].lo, tasks[b].hi>>}
                           ELSE rd[r].batches
                    free == {t \in Tasks : pinched[t].pc = "none"}
                    t == IF contiguous THEN b
                         ELSE CHOOSE x \in free : \A y \in free : x <= y
                    pushed == IF contiguous THEN [pinched EXCEPT ![t].hi = c]
                              ELSE [pinched EXCEPT ![t] =
                                      [NoTask EXCEPT !.pc = "building", !.f = f,
                                                     !.entry = rd[r].entry,
                                                     !.lo = c, !.hi = c]]
                IN  /\ contiguous \/ free # {}
                    /\ downloading' = try_lock_owned(k, t)
                    /\ assert_failed' = (assert_failed \/ cached[k])
                    /\ failed' = [failed EXCEPT !.open = @ \ {k}]
                    /\ QueueNext(r, pushed, t, d1, bs1)
    /\ UNCHANGED <<sweepvars, openvars, cl, chunk_preload, entries, cached, accessed_at_secs, disk, bin_exists,
                   meta, duration_hint_secs, readers, permits, ratelimited_until, now>>

\* entry.rs:359: chunk.downloading.try_lock() of wait_for_chunks.
WaitLock(r) ==
    /\ rd[r].pc = "w_lock"
    /\ LET k == <<rd[r].f, Head(rd[r].wait)>>
       IN  IF downloading[k] = Free
           THEN /\ downloading' = [downloading EXCEPT ![k] = ByProbe(r)]
                /\ rd' = [rd EXCEPT ![r].pc = "w_load", ![r].lock_ok = TRUE]
           ELSE /\ rd' = [rd EXCEPT ![r].pc = "w_load", ![r].lock_ok = FALSE]
                /\ UNCHANGED downloading
    /\ UNCHANGED <<sweepvars, openvars, cl, chunk_preload, entries, cached, accessed_at_secs, disk, bin_exists,
                   meta, duration_hint_secs, readers, tasks, permits, ratelimited_until,
                   now, failed, assert_failed>>

\* A poll that takes a free guard for a finished download.
wait_outcome_free_is_done(is_cached, lock_ok) ==
    IF is_cached \/ lock_ok THEN "break" ELSE "sleep"

\* The decision of one poll of wait_for_chunks, entry.rs:360-374.
wait_outcome(is_cached, lock_ok) ==
    IF is_cached THEN "break" ELSE IF lock_ok THEN "bail" ELSE "sleep"

\* entry.rs:360-375: chunk.cached.load, then break, bail or sleep; the probe
\* guard is dropped at the end of the iteration.
WaitLoad(r) ==
    /\ rd[r].pc = "w_load"
    /\ LET c == Head(rd[r].wait)
           k == <<rd[r].f, c>>
           out == wait_outcome(cached[k], rd[r].lock_ok)
           rest == Tail(rd[r].wait)
       IN  /\ downloading' = IF rd[r].lock_ok THEN [downloading EXCEPT ![k] = Free]
                             ELSE downloading
           /\ rd' = [rd EXCEPT ![r] =
                  IF out = "break"
                  THEN [@ EXCEPT !.wait = rest, !.lock_ok = FALSE,
                                 !.observed = IF cached[k] THEN @ \cup {c} ELSE @,
                                 !.pc = IF rest = <<>> THEN "open" ELSE "w_lock"]
                  ELSE IF out = "bail"
                  THEN [@ EXCEPT !.lock_ok = FALSE, !.pc = "done",
                                 !.result = "ChunkUnavailable"]
                  ELSE [@ EXCEPT !.lock_ok = FALSE, !.pc = "w_lock"]]
    /\ UNCHANGED <<sweepvars, openvars, cl, chunk_preload, entries, cached, accessed_at_secs, disk, bin_exists,
                   meta, duration_hint_secs, readers, tasks, permits, ratelimited_until,
                   now, failed, assert_failed>>

\* entry.rs:338-343: open the backing file read-only.
ReadOpen(r) ==
    /\ rd[r].pc = "open"
    /\ rd' = [rd EXCEPT ![r] = IF bin_exists[rd[r].f]
                               THEN [@ EXCEPT !.pc = "read"]
                               ELSE [@ EXCEPT !.pc = "done", !.result = "Io"]]
    /\ UNCHANGED <<sweepvars, openvars, cl, chunk_preload, entries, cached, downloading, accessed_at_secs, disk,
                   bin_exists, meta, duration_hint_secs, readers, tasks, permits,
                   ratelimited_until, now, failed, assert_failed>>

\* entry.rs:345-350: seek and read_exact; the result holds, per covering
\* chunk, what the extent under the chunk contains at that moment in the
\* file the call opened.
ReadFile(r) ==
    /\ rd[r].pc = "read"
    /\ rd' = [rd EXCEPT ![r].pc = "done", ![r].result = "Ok",
                        ![r].bytes =
                            IF @ # <<>> THEN @     \* the content of the file unlinked meanwhile
                            ELSE [i \in 1 .. (end_chunk_index(r) - start_chunk_index(r) + 1)
                                        |-> disk[<<rd[r].f, start_chunk_index(r) + i - 1>>]]]
    /\ UNCHANGED <<sweepvars, openvars, cl, chunk_preload, entries, cached, downloading, accessed_at_secs, disk,
                   bin_exists, meta, duration_hint_secs, readers, tasks, permits,
                   ratelimited_until, now, failed, assert_failed>>

\* ------------------------------------------------------------ Ratelimiter
\* A semaphore with one permit too many.
permit_free_off_by_one(held) == Cardinality(held) <= MAX_CONCURRENT_REQUESTS

\* Semaphore::acquire_owned, ratelimiter.rs:27: a permit is free while fewer
\* than MAX_CONCURRENT_REQUESTS are out.
permit_free(held) == Cardinality(held) < MAX_CONCURRENT_REQUESTS

\* A wait() that never looks at the deadline.
must_sleep_never(until, t) == FALSE

\* ratelimiter.rs:29-33: a penalty deadline that lies ahead.
must_sleep(until, t) == until > 0 /\ t < until

\* ------------------------------------------------------------- Downloader
None == -1

\* <[u64]>::get
Get(seq, i) == IF i + 1 \in 1 .. Len(seq) THEN seq[i + 1] ELSE None

\* downloader.rs:86, attempts += 1.  get_backoff reads the counter only as the
\* index attempts - 1 into a schedule and no schedule has AttemptCap entries,
\* so every attempt from the AttemptCap-th on counts as the AttemptCap-th.
next_attempt(a) == IF a < AttemptCap THEN a + 1 ELSE a

\* Retry-After / x-ratelimit-after values the server sends, downloader.rs:184-188
Hints == {2, 7}

\* DownloadChunkError, downloader.rs:24-40.  Panic is the failed assert of
\* downloader.rs:221, which unwinds the task.
StartErrors == {<<"TorboxError", 0>>, <<"GenericError", 0>>}
SendErrors == {<<"Ratelimited", None>>, <<"FetchError", 0>>, <<"ResponseError", 1>>,
               <<"ResponseError", 0>>, <<"IoError", 0>>, <<"Panic", 0>>}
                  \cup {<<"Ratelimited", h>> : h \in Hints}
StreamErrors == {<<"StreamError", 0>>, <<"IoError", 0>>}

\* The classification of an error: the variant, and for a ResponseError
\* whether the status is one of the transient ones, downloader.rs:194-209.
classification(e) == <<e[1], IF e[1] = "Ratelimited" THEN 0 ELSE e[2]>>

\* The schedule get_backoff indexes for a classification, downloader.rs:49-61.
schedule(c) ==
    CASE c[1] = "Ratelimited" -> RESPONSE_ERROR_RETRIES
      [] c[1] = "FetchError" -> FETCH_ERROR_RETRIES
      [] c = <<"ResponseError", 1>> -> RESPONSE_ERROR_RETRIES
      [] c[1] = "StreamError" -> STREAM_ERROR_RETRIES
      [] OTHER -> <<>>

\* A backoff that takes the schedule also when the server sent a hint.
get_backoff_ignores_hint(e, attempts) ==
    CASE e[1] = "Ratelimited" -> Get(RESPONSE_ERROR_RETRIES, attempts - 1)
      [] e[1] = "FetchError" -> Get(FETCH_ERROR_RETRIES, attempts - 1)
      [] e[1] = "ResponseError" ->
            IF e[2] = 1 THEN Get(RESPONSE_ERROR_RETRIES, attempts - 1) ELSE None
      [] e[1] = "StreamError" -> Get(STREAM_ERROR_RETRIES, attempts - 1)
      [] OTHER -> None

\* A backoff that retries every status, transient or not.
get_backoff_any_status(e, attempts) ==
    CASE e[1] = "Ratelimited" ->
            IF e[2] # None THEN e[2] ELSE Get(RESPONSE_ERROR_RETRIES, attempts - 1)
      [] e[1] = "FetchError" -> Get(FETCH_ERROR_RETRIES, attempts - 1)
      [] e[1] = "ResponseError" -> Get(RESPONSE_ERROR_RETRIES, attempts - 1)
      [] e[1] = "StreamError" -> Get(STREAM_ERROR_RETRIES, attempts - 1)
      [] OTHER -> None

\* DownloadChunkError::get_backoff, downloader.rs:43-67: the seconds to sleep
\* before the next attempt, None when the error is final.
get_backoff(e, attempts) ==
    CASE e[1] = "Ratelimited" ->
            IF e[2] # None THEN e[2] ELSE Get(RESPONSE_ERROR_RETRIES, attempts - 1)
      [] e[1] = "FetchError" -> Get(FETCH_ERROR_RETRIES, attempts - 1)
      [] e[1] = "ResponseError" ->
            IF e[2] = 1 THEN Get(RESPONSE_ERROR_RETRIES, attempts - 1) ELSE None
      [] e[1] = "StreamError" -> Get(STREAM_ERROR_RETRIES, attempts - 1)
      [] OTHER -> None

\* A task that ends without releasing its guards.
drop_chunks_leak(t) == downloading

\* drop(chunks), downloader.rs:90,103: every guard the task owns is released.
drop_chunks(t) == [k \in ChunkKeys |-> IF downloading[k] = ByTask(t) THEN Free
                                        ELSE downloading[k]]

batch_len(t) == tasks[t].hi - tasks[t].lo + 1

\* downloader.rs:85-87 and 119-175: a new attempt starts and the URL of the
\* request is resolved.
DlStart(t) ==
    /\ tasks[t].pc = "start"
    /\ tasks' = [tasks EXCEPT ![t].pc = "wait", ![t].attempts = next_attempt(@)]
    /\ UNCHANGED <<sweepvars, openvars, cl, chunk_preload, entries, cached, downloading, accessed_at_secs, disk,
                   bin_exists, meta, duration_hint_secs, readers, rd, permits,
                   ratelimited_until, now, failed, assert_failed>>

\* Ratelimiter::wait, ratelimiter.rs:26-41, called at downloader.rs:177: take
\* a permit, then sleep until the penalty deadline or clear a deadline that
\* has passed.
DlAcquire(t) ==
    /\ tasks[t].pc = "wait"
    /\ permit_free(permits)
    /\ permits' = permits \cup {t}
    /\ IF must_sleep(ratelimited_until, now)
       THEN /\ tasks' = [tasks EXCEPT ![t].pc = "rl_sleep", ![t].sleep = ratelimited_until]
            /\ UNCHANGED ratelimited_until
       ELSE /\ tasks' = [tasks EXCEPT ![t].pc = "send"]
            /\ ratelimited_until' = 0
    /\ UNCHANGED <<sweepvars, openvars, cl, chunk_preload, entries, cached, downloading, accessed_at_secs, disk,
                   bin_exists, meta, duration_hint_secs, readers, rd, now, failed, assert_failed>>

\* ratelimiter.rs:33: the sleep of wait() ends when the deadline is reached.
DlRatelimitWake(t) ==
    /\ tasks[t].pc = "rl_sleep"
    /\ now >= tasks[t].sleep
    /\ tasks' = [tasks EXCEPT ![t].pc = "send", ![t].sleep = 0]
    /\ UNCHANGED <<sweepvars, openvars, cl, chunk_preload, entries, cached, downloading, accessed_at_secs, disk,
                   bin_exists, meta, duration_hint_secs, readers, rd, permits,
                   ratelimited_until, now, failed, assert_failed>>

\* downloader.rs:121-122 and 220: end_offset - start_offset + 1, the length
\* of the range the task requests.
expected_length(t) ==
    chunk_offset(tasks[t].hi) + chunk_size(tasks[t].f, tasks[t].hi) - chunk_offset(tasks[t].lo)

\* downloader.rs:178-237: the request is answered 206 with the expected
\* Content-Length, which no server does for an empty range; the backing
\* file is opened (and created) for writing.
DlSend(t) ==
    /\ tasks[t].pc = "send"
    /\ expected_length(t) > 0
    /\ tasks' = [tasks EXCEPT ![t].pc = "stream", ![t].written = 0, ![t].k = 0,
                              ![t].partial = FALSE]
    /\ bin_exists' = [bin_exists EXCEPT ![tasks[t].f] = TRUE]
    /\ UNCHANGED <<sweepvars, openvars, cl, chunk_preload, entries, cached, downloading, accessed_at_secs, disk,
                   meta, duration_hint_secs, readers, rd, permits, ratelimited_until,
                   now, failed, assert_failed>>

\* downloader.rs:239-246: one block of the body is written at the file
\* position.  j = 0 is a block that ends inside the chunk being written,
\* j > 0 a block that completes the next j chunks of the batch; a chunk of
\* size 0 is complete as soon as the chunk before it is.
DlWrite(t, j) ==
    /\ tasks[t].pc = "stream"
    /\ tasks[t].written + j <= batch_len(t)
    /\ tasks[t].written < batch_len(t)
    /\ j = 0 => ~tasks[t].partial
    /\ j = 0 => chunk_size(tasks[t].f, tasks[t].lo + tasks[t].written) > 0
    /\ (j > 0 /\ tasks[t].written + j < batch_len(t))
          => chunk_size(tasks[t].f, tasks[t].lo + tasks[t].written + j) > 0
    /\ LET f == tasks[t].f
           first == tasks[t].lo + tasks[t].written
       IN  disk' = [k \in ChunkKeys |->
                      IF k[1] = f /\ k[2] >= first /\ k[2] < first + j THEN "data"
                      ELSE IF k[1] = f /\ k[2] = first /\ j = 0 /\ disk[k] = "hole"
                      THEN "partial"
                      ELSE disk[k]]
    /\ tasks' = [tasks EXCEPT ![t].written = @ + j,
                              ![t].partial = (j = 0),
                              ![t].pc = IF j > 0 THEN "publish" ELSE "stream"]
    /\ UNCHANGED <<sweepvars, openvars, cl, chunk_preload, entries, cached, downloading, accessed_at_secs,
                   bin_exists, meta, duration_hint_secs, readers, rd, permits,
                   ratelimited_until, now, failed, assert_failed>>

\* CacheEntry::flush_cache_meta, entry.rs:142-147: the sidecar is rewritten
\* with the cached flags c.
flush_cache_meta(f, c) ==
    [meta EXCEPT ![f] = [exists |-> TRUE, cached |-> {i \in Indexes(f) : c[<<f, i>>]}]]

\* A publishing loop that takes the completed chunks from the last one down.
current_chunk_descending(t) == tasks[t].lo + tasks[t].written - 1

\* downloader.rs:251: chunks[current_chunk_index], the chunk the publishing
\* loop is at.
current_chunk(t) == tasks[t].lo + tasks[t].k

\* downloader.rs:249-270, one iteration: publish the chunk at
\* current_chunk_index, flush the sidecar, advance.
DlPublish(t) ==
    /\ tasks[t].pc = "publish"
    /\ LET k == <<tasks[t].f, current_chunk(t)>>
       IN  /\ cached' = [cached EXCEPT ![k] = TRUE]
           /\ meta' = flush_cache_meta(tasks[t].f, cached')
    /\ tasks' = [tasks EXCEPT ![t].k = @ + 1,
                              ![t].pc = IF tasks[t].k + 1 < tasks[t].written
                                        THEN "publish" ELSE "stream"]
    /\ UNCHANGED <<sweepvars, openvars, cl, chunk_preload, entries, downloading, accessed_at_secs, disk,
                   bin_exists, duration_hint_secs, readers, rd, permits,
                   ratelimited_until, now, failed, assert_failed>>

\* An attempt that ends with its permit still taken.
drop_permit_kept(t) == permits

\* drop(permit), downloader.rs:273, and the drop of the local `permit` when
\* download_contiguous_chunks_inner returns early or unwinds.
drop_permit(t) == permits \ {t}

\* downloader.rs:273-284 and 89-92: the stream ended; the permit is dropped,
\* the file synced and the guards of the batch are released.
DlFinish(t) ==
    /\ tasks[t].pc = "stream"
    /\ tasks[t].written = batch_len(t)
    /\ permits' = drop_permit(t)
    /\ downloading' = drop_chunks(t)
    /\ tasks' = [tasks EXCEPT ![t] = NoTask]
    /\ UNCHANGED <<sweepvars, openvars, cl, chunk_preload, entries, cached, accessed_at_secs, disk, bin_exists,
                   meta, duration_hint_secs, readers, rd, ratelimited_until, now,
                   failed, assert_failed>>

\* The chunks of the batch of t that are not cached.
unpublished(t) == {k \in ChunkKeys : k[1] = tasks[t].f /\ k[2] >= tasks[t].lo
                                     /\ k[2] <= tasks[t].hi /\ ~cached[k]}

\* History: the chunk indexes among the keys ks that the read_bytes call r
\* is waiting for in wait_for_chunks.
waiting_on(r, ks) ==
    IF rd[r].pc \in {"w_lock", "w_load"}
    THEN {c \in necessary_chunks(r) : <<rd[r].f, c>> \in ks
                                      /\ \E i \in 1 .. Len(rd[r].wait) : rd[r].wait[i] = c}
    ELSE {}

\* downloader.rs:93-107: an attempt ended with error e.  The permit of the
\* attempt is gone; get_backoff decides between a retry after a sleep and
\* the final failure, which releases the guards.
DlError(t, e) ==
    /\ \/ tasks[t].pc = "start" /\ e \in StartErrors
       \/ tasks[t].pc = "send" /\ e \in SendErrors
       \/ tasks[t].pc = "stream" /\ e \in StreamErrors
             /\ (e[1] = "StreamError" => tasks[t].written < batch_len(t))
    /\ LET attempts == IF tasks[t].pc = "start" THEN next_attempt(tasks[t].attempts)
                       ELSE tasks[t].attempts
           backoff == get_backoff(e, attempts)
           c == classification(e)
           nth == IF c \in Retryable THEN next_attempt(tasks[t].errs[c]) ELSE 1
       IN  /\ permits' = drop_permit(t)
           /\ ratelimited_until' = IF e[1] = "Ratelimited"
                                   THEN now + RATELIMIT_PENALTY_SECS
                                   ELSE ratelimited_until
           /\ IF backoff # None
              THEN /\ tasks' = [tasks EXCEPT ![t].pc = "backoff", ![t].sleep = backoff,
                                             ![t].attempts = attempts, ![t].since = now,
                                             ![t].hint = IF e[1] = "Ratelimited" THEN e[2]
                                                         ELSE None,
                                             ![t].last = c, ![t].errs[c] = nth]
                   /\ UNCHANGED <<downloading, failed, rd>>
              ELSE /\ tasks' = [tasks EXCEPT ![t] = NoTask]
                   /\ downloading' = drop_chunks(t)
                   /\ failed' = [open |-> failed.open \cup unpublished(t),
                                  all |-> failed.all \cup unpublished(t)]
                   /\ rd' = [r \in ReaderIds |->
                               [rd[r] EXCEPT !.doomed = @ \cup waiting_on(r, unpublished(t))]]
    /\ UNCHANGED <<sweepvars, openvars, cl, chunk_preload, entries, cached, accessed_at_secs, disk, bin_exists,
                   meta, duration_hint_secs, readers, now, assert_failed>>

\* downloader.rs:101: the backoff sleep is over, the loop starts the next
\* attempt.  The model follows MaxAttempts attempts of a task.
DlWake(t) ==
    /\ tasks[t].pc = "backoff"
    /\ tasks[t].attempts < MaxAttempts
    /\ tasks' = [tasks EXCEPT ![t].pc = "start", ![t].sleep = 0]
    /\ UNCHANGED <<sweepvars, openvars, cl, chunk_preload, entries, cached, downloading, accessed_at_secs, disk,
                   bin_exists, meta, duration_hint_secs, readers, rd, permits,
                   ratelimited_until, now, failed, assert_failed>>

\* downloader.rs:101 for a sleep that is timed: the backoff has elapsed.
DlWakeAt(t) ==
    /\ now >= tasks[t].since + tasks[t].sleep
    /\ DlWake(t)

\* The clock advances while a task sleeps on the penalty deadline or in its
\* backoff.
Tick ==
    /\ now < MaxSleep
    /\ \E t \in Tasks :
          \/ (tasks[t].pc = "rl_sleep" /\ now < tasks[t].sleep)
          \/ (tasks[t].pc = "backoff" /\ now < tasks[t].since + tasks[t].sleep)
    /\ now' = now + 1
    /\ UNCHANGED <<sweepvars, openvars, cl, chunk_preload, entries, cached, downloading, accessed_at_secs, disk,
                   bin_exists, meta, duration_hint_secs, readers, rd, tasks, permits,
                   ratelimited_until, failed, assert_failed>>

\* ratelimiter.rs:33 when the clock is not followed: the sleep of wait() ends.
DlPenaltyOver(t) ==
    /\ tasks[t].pc = "rl_sleep"
    /\ tasks' = [tasks EXCEPT ![t].pc = "send", ![t].sleep = 0]
    /\ UNCHANGED <<sweepvars, openvars, cl, chunk_preload, entries, cached, downloading, accessed_at_secs, disk,
                   bin_exists, meta, duration_hint_secs, readers, rd, permits,
                   ratelimited_until, now, failed, assert_failed>>

\* downloader.rs:101 when the clock is not followed: the backoff sleep ends
\* and the loop starts the next attempt, however many there have been.
DlBackoffOver(t) ==
    /\ tasks[t].pc = "backoff"
    /\ tasks' = [tasks EXCEPT ![t].pc = "start"]
    /\ UNCHANGED <<sweepvars, openvars, cl, chunk_preload, entries, cached, downloading, accessed_at_secs, disk,
                   bin_exists, meta, duration_hint_secs, readers, rd, permits,
                   ratelimited_until, now, failed, assert_failed>>

\* ----------------------------------------------------------- upsert_entry
IdleOpen == [pc |-> "idle", f |-> 0, got |-> 0]

\* mod.rs:111-114: the lookup of the file id under the read lock.
first_lookup(f) == entries[f]

\* A second lookup that always misses.
second_lookup_missing(f) == 0

\* mod.rs:117-120: the lookup of the file id under the write lock.
second_lookup(f) == entries[f]

\* LuminFS::read, fuse.rs:542-558: the row of the file is read from the
\* metadata store; upsert_entry is called with it afterwards.
FuseFind(o, f) ==
    /\ op[o].pc = "idle"
    /\ f \in db_files
    /\ op' = [op EXCEPT ![o] = [pc |-> "found", f |-> f, got |-> 0]]
    /\ UNCHANGED <<sweepvars, created, ld, ra, lk, fl, boot, pr, tl, cl, chunk_preload, entries, cached, downloading,
                   accessed_at_secs, disk, bin_exists, meta, duration_hint_secs, readers,
                   rd, tasks, permits, ratelimited_until, now, failed,
                   assert_failed>>

\* mod.rs:111-116: the lookup under the read lock; a hit returns the entry.
OpenRead(o, f) ==
    /\ op[o].pc = "idle" \/ (op[o].pc = "found" /\ op[o].f = f)
    /\ op' = [op EXCEPT ![o] = IF first_lookup(f) # 0
                               THEN [pc |-> "done", f |-> f, got |-> first_lookup(f)]
                               ELSE [pc |-> "write", f |-> f, got |-> 0]]
    /\ UNCHANGED <<sweepvars, created, ld, ra, lk, fl, boot, pr, tl, cl, chunk_preload, entries, cached, downloading,
                   accessed_at_secs, disk, bin_exists, meta, duration_hint_secs, readers,
                   rd, tasks, permits, ratelimited_until, now, failed,
                   assert_failed>>

\* mod.rs:117-132: under the write lock the id is looked up again; on a miss
\* CacheEntry::load (entry.rs:64-102) builds the entry from the sidecar, or
\* cold without one, and the entry is inserted.
OpenWrite(o) ==
    /\ op[o].pc = "write"
    /\ LET f == op[o].f
       IN  IF second_lookup(f) # 0
           THEN /\ op' = [op EXCEPT ![o].pc = "done", ![o].got = second_lookup(f)]
                /\ UNCHANGED <<entries, created, cached, downloading, readers>>
           ELSE /\ created' = created + 1
                /\ entries' = [entries EXCEPT ![f] = created + 1]
                /\ op' = [op EXCEPT ![o].pc = "done", ![o].got = created + 1]
                /\ cached' = [k \in ChunkKeys |->
                                IF k[1] = f THEN meta[f].exists /\ k[2] \in meta[f].cached
                                ELSE cached[k]]
                /\ downloading' = [k \in ChunkKeys |-> IF k[1] = f THEN Free
                                                       ELSE downloading[k]]
                /\ readers' = [readers EXCEPT ![f] = <<>>]
    /\ UNCHANGED <<sweepvars, ld, ra, lk, fl, boot, pr, tl, cl, chunk_preload, accessed_at_secs, disk, bin_exists, meta,
                   duration_hint_secs, rd, tasks, permits, ratelimited_until, now,
                   failed, assert_failed>>

\* -------------------------------------------------------- CacheEntry::load
IdleLoad == [pc |-> "idle", size |-> 0, chunks |-> <<>>]

\* The sizes of the files load is called with: 1 KiB and every multiple of
\* 1 MiB up to MaxLoadChunks chunks.
LoadSizes == {1} \cup {q * 1024 : q \in 1 .. ((MaxLoadChunks * DEFAULT_CHUNK_SIZE) \div 1024)}

\* CacheEntry::load, entry.rs:64-81, for a file of size S without sidecar.
LoadCall(S) ==
    /\ ld.pc = "idle"
    /\ ld' = [pc |-> "push", size |-> S, chunks |-> <<>>]
    /\ UNCHANGED <<sweepvars, op, created, ra, lk, fl, boot, pr, tl, cl, chunk_preload, entries, cached, downloading,
                   accessed_at_secs, disk, bin_exists, meta, duration_hint_secs, readers,
                   rd, tasks, permits, ratelimited_until, now, failed, assert_failed>>

\* entry.rs:81-88, one iteration of the loop over 0..total_chunks: Chunk::new
\* (chunk.rs:50-61) with the size get_chunk_size_from_index gives.
LoadPush ==
    /\ ld.pc = "push"
    /\ LET i == Len(ld.chunks)
           total == (ld.size + DEFAULT_CHUNK_SIZE - 1) \div DEFAULT_CHUNK_SIZE
       IN  ld' = IF i < total
                 THEN [ld EXCEPT !.chunks =
                          Append(@, [index |-> i, offset |-> chunk_offset(i),
                                     size |-> get_chunk_size_from_index(i, ld.size)])]
                 ELSE [ld EXCEPT !.pc = "done"]
    /\ UNCHANGED <<sweepvars, op, created, ra, lk, fl, boot, pr, tl, cl, chunk_preload, entries, cached, downloading,
                   accessed_at_secs, disk, bin_exists, meta, duration_hint_secs, readers,
                   rd, tasks, permits, ratelimited_until, now, failed, assert_failed>>

\* ------------------------------------------------------ read-ahead sizing
IdleAhead == [pc |-> "idle", size |-> 0, hint |-> 0, bytes_read |-> 0, bytes_per_sec |-> 0,
              seconds_read |-> 0, tier |-> 0, trigger |-> 0, target |-> 0]

\* File sizes in KiB: 1 KiB, 32 MiB, 80 MiB, 1 GiB and 7.2 GiB.
AheadSizes == {1, 4 * DEFAULT_CHUNK_SIZE, 10 * DEFAULT_CHUNK_SIZE, 1048576, 7549747}
\* Duration hints in seconds, 0 is none.
AheadHints == {0, 1800, 3600, 7200}
\* Reader.bytes_read in KiB, up to 512 MiB.
AheadRead == {0, 1024, 20480, 40960, 61440, 102400, 524288}

\* entry.rs:193-217: get_read_ahead_chunks computes the trigger and the
\* target of the read-ahead for a file of S KiB with duration hint d and a
\* reader that has read b KiB.  With bytes_per_sec = 0 the division at
\* entry.rs:196 panics and the call yields nothing.
AheadCall(S, d, b) ==
    /\ ra.pc = "idle"
    /\ LET bps == IF d > 0 THEN bytes_per_sec(S, d) ELSE 0
           secs == IF d > 0 THEN seconds_read(b, bps) ELSE 0
           sz == read_ahead_for(S, d, b)
       IN  IF d > 0 /\ bps = 0
           THEN ra' = [IdleAhead EXCEPT !.pc = "panic", !.size = S, !.hint = d,
                                        !.bytes_read = b]
           ELSE ra' = [pc |-> "done", size |-> S, hint |-> d, bytes_read |-> b,
                       bytes_per_sec |-> bps, seconds_read |-> secs,
                       tier |-> IF d > 0 THEN read_ahead_tier(secs) ELSE 0,
                       trigger |-> sz[1], target |-> sz[2]]
    /\ UNCHANGED <<sweepvars, op, created, ld, lk, fl, boot, pr, tl, cl, chunk_preload, entries, cached, downloading,
                   accessed_at_secs, disk, bin_exists, meta, duration_hint_secs, readers,
                   rd, tasks, permits, ratelimited_until, now, failed, assert_failed>>

\* -------------------------------------------------------------- Cache::load
\* What the query of mod.rs:55-59 yields for a file id: no row, a row whose
\* torrent is missing, a row whose torrent has no remote_id, a row with a
\* torrent that has one.
Rows == {"none", "no_torrent", "no_remote", "ok"}

\* Cache::load has returned; todo are the <id>.bin files read_dir has still
\* to yield, bins those it found at start-up, rows the answers of the store.
Booted == [pc |-> "done", todo |-> {}, bins |-> {}, rows |-> [f \in CacheFiles |-> "ok"]]

\* mod.rs:35-90, one iteration of the loop over the directory, for <f>.bin:
\* without row or torrent the file and its sidecar are removed; without
\* remote id the file is left alone; otherwise CacheEntry::load builds the
\* entry, with the flags of the sidecar if there is one, and it is inserted.
BootEntry(f) ==
    /\ boot.pc = "dir"
    /\ f \in boot.todo
    /\ boot' = [boot EXCEPT !.todo = @ \ {f}]
    /\ CASE boot.rows[f] \in {"none", "no_torrent"} ->
              /\ bin_exists' = [bin_exists EXCEPT ![f] = FALSE]
              /\ disk' = [k \in ChunkKeys |-> IF k[1] = f THEN "hole" ELSE disk[k]]
              /\ meta' = [meta EXCEPT ![f] = [exists |-> FALSE, cached |-> {}]]
              /\ UNCHANGED <<entries, created, cached>>
         [] boot.rows[f] = "no_remote" ->
              UNCHANGED <<bin_exists, disk, meta, entries, created, cached>>
         [] boot.rows[f] = "ok" ->
              /\ entries' = [entries EXCEPT ![f] = f]
              /\ created' = created + 1
              /\ cached' = [k \in ChunkKeys |->
                              IF k[1] = f THEN meta[f].exists /\ k[2] \in meta[f].cached
                              ELSE cached[k]]
              /\ UNCHANGED <<bin_exists, disk, meta>>
    /\ UNCHANGED <<sweepvars, op, ld, ra, lk, fl, pr, tl, cl, chunk_preload, downloading,
                   accessed_at_secs, duration_hint_secs, readers, rd, tasks, permits,
                   ratelimited_until, now, failed, assert_failed>>

\* mod.rs:35 and 92-98: read_dir is exhausted, the Cache is returned.
BootDone ==
    /\ boot.pc = "dir"
    /\ boot.todo = {}
    /\ boot' = [boot EXCEPT !.pc = "done"]
    /\ UNCHANGED <<sweepvars, op, created, ld, ra, lk, fl, pr, tl, cl, chunk_preload, entries, cached,
                   downloading, accessed_at_secs, disk, bin_exists, meta, duration_hint_secs,
                   readers, rd, tasks, permits, ratelimited_until, now, failed,
                   assert_failed>>

\* ------------------------------------------------ Debrid::get_download_link
\* The calls for one key "torrent_id:file_id".  cache is the entry of
\* url_cache for the key, mutex the holder of the key's mutex in url_mutex,
\* issued counts the download links the server has handed out.
IdleCall == [pc |-> "idle", start |-> 0, got |-> 0,
             sent |-> 0,       \* history: requests the call has sent
             locked |-> FALSE, \* history: the call has taken the key's mutex
             at |-> 0,         \* history: the clock when the call returned
             until |-> 0]      \* history: expires_at of the cached item it returned

IdleLink == [cache |-> <<>>, mutex |-> 0, issued |-> 0, c |-> [i \in Callers |-> IdleCall]]

\* ExpiringItem::is_expired, debrid.rs:105-107.
is_expired(item, t) == item.expires_at < t

\* Debrid::get_cached_url, debrid.rs:314-327: the item of the key, <<>> when
\* there is none or when it has expired.
get_cached_url(t) ==
    IF lk.cache # <<>> /\ is_expired(lk.cache, t) THEN <<>> ELSE lk.cache

\* A second lookup that always misses.
recheck_missing(t) == <<>>

\* debrid.rs:268, the lookup under the key's mutex.
recheck(t) == get_cached_url(t)

LinkUnchanged ==
    UNCHANGED <<sweepvars, op, created, ld, ra, fl, boot, pr, tl, cl, chunk_preload, entries, cached, downloading,
                accessed_at_secs, disk, bin_exists, meta, duration_hint_secs, readers,
                rd, tasks, permits, ratelimited_until, failed, assert_failed>>

\* debrid.rs:245-255: a call arrives and looks the key up without the
\* mutex; an expired item is removed; a hit returns.
LinkCall(i) ==
    /\ lk.c[i].pc = "idle"
    /\ \A j \in Callers : j < i => lk.c[j].pc # "idle"   \* calls are numbered in order of arrival
    /\ LET hit == get_cached_url(now)
       IN  lk' = [lk EXCEPT !.cache = hit,
                            !.c[i] = IF hit # <<>>
                                     THEN [@ EXCEPT !.pc = "done", !.got = hit.url,
                                                    !.at = now, !.until = hit.expires_at]
                                     ELSE [@ EXCEPT !.pc = "lock"]]
    /\ UNCHANGED now
    /\ LinkUnchanged

\* debrid.rs:257-265: the mutex of the key is fetched from url_mutex, or
\* created, and locked; the call waits while another call holds it.
LinkLock(i) ==
    /\ lk.c[i].pc = "lock"
    /\ lk.mutex = 0
    /\ lk' = [lk EXCEPT !.mutex = i, !.c[i].pc = "second", !.c[i].locked = TRUE]
    /\ UNCHANGED now
    /\ LinkUnchanged

\* debrid.rs:267-288: the key is looked up again under the mutex; a hit
\* returns and drops the mutex, a miss sends the requestdl request.
LinkSecond(i) ==
    /\ lk.c[i].pc = "second"
    /\ LET hit == recheck(now)
       IN  lk' = IF hit # <<>>
                 THEN [lk EXCEPT !.mutex = 0,
                                 !.c[i] = [@ EXCEPT !.pc = "done", !.got = hit.url,
                                                    !.at = now, !.until = hit.expires_at]]
                 ELSE [lk EXCEPT !.cache = get_cached_url(now),
                                 !.c[i] = [@ EXCEPT !.pc = "request", !.start = now,
                                                    !.sent = @ + 1]]
    /\ UNCHANGED now
    /\ LinkUnchanged

\* debrid.rs:289-299: the answer arrives.  A link is stored in url_cache
\* with expires_at = start + 175 minutes and returned; an error returns
\* through `?`.  Either way the mutex is dropped.
LinkResponse(i, ok) ==
    /\ lk.c[i].pc = "request"
    /\ lk' = IF ok
             THEN [lk EXCEPT !.mutex = 0, !.issued = @ + 1,
                             !.cache = [url |-> lk.issued + 1,
                                        expires_at |-> lk.c[i].start + URL_TTL_SECS],
                             !.c[i] = [@ EXCEPT !.pc = "done", !.got = lk.issued + 1,
                                                !.at = now]]
             ELSE [lk EXCEPT !.mutex = 0, !.c[i].pc = "failed"]
    /\ UNCHANGED now
    /\ LinkUnchanged

\* Time passes: the lifetime of a link, or one of the first two seconds
\* after a multiple of it.
LinkTick(d) ==
    /\ d \in {1, URL_TTL_SECS}
    /\ d = 1 => now % URL_TTL_SECS < 2
    /\ now + d <= MaxLinkTime
    /\ now' = now + d
    /\ UNCHANGED lk
    /\ LinkUnchanged

\* Concurrent get_download_link calls for one key, and the clock.
NextLink ==
    \/ \E i \in Callers : LinkCall(i)
    \/ \E i \in Callers : LinkLock(i)
    \/ \E i \in Callers : LinkSecond(i)
    \/ \E i \in Callers, ok \in BOOLEAN : LinkResponse(i, ok)
    \/ \E d \in {1, URL_TTL_SECS} : LinkTick(d)

\* ------------------------------------------------- callers of Ratelimiter
IdleClient == [pc |-> "idle", sleep |-> 0]

\* A download attempt reaches self.ratelimiter.wait(), downloader.rs:177.
RlCall(c) ==
    /\ cl[c].pc = "idle"
    /\ \A d \in Clients : d < c => cl[d].pc # "idle"   \* idle callers are interchangeable
    /\ cl' = [cl EXCEPT ![c].pc = "acquire"]
    /\ UNCHANGED <<sweepvars, openvars, chunk_preload, entries, cached, downloading,
                   accessed_at_secs, disk, bin_exists, meta, duration_hint_secs, readers,
                   rd, tasks, permits, ratelimited_until, now, failed,
                   assert_failed>>

\* Ratelimiter::wait, ratelimiter.rs:26-41: the permit is acquired, then the
\* caller sleeps until a deadline that lies ahead or clears one that passed.
RlAcquire(c) ==
    /\ cl[c].pc = "acquire"
    /\ permit_free(permits)
    /\ permits' = permits \cup {c}
    /\ IF must_sleep(ratelimited_until, now)
       THEN /\ cl' = [cl EXCEPT ![c] = [pc |-> "sleeping", sleep |-> ratelimited_until]]
            /\ UNCHANGED ratelimited_until
       ELSE /\ cl' = [cl EXCEPT ![c].pc = "holding"]
            /\ ratelimited_until' = 0
    /\ UNCHANGED <<sweepvars, openvars, chunk_preload, entries, cached, downloading,
                   accessed_at_secs, disk, bin_exists, meta, duration_hint_secs, readers,
                   rd, tasks, now, failed, assert_failed>>

\* ratelimiter.rs:33: the penalty sleep is over, wait returns the permit.
RlWake(c) ==
    /\ cl[c].pc = "sleeping"
    /\ now >= cl[c].sleep
    /\ cl' = [cl EXCEPT ![c] = [pc |-> "holding", sleep |-> 0]]
    /\ UNCHANGED <<sweepvars, openvars, chunk_preload, entries, cached, downloading,
                   accessed_at_secs, disk, bin_exists, meta, duration_hint_secs, readers,
                   rd, tasks, permits, ratelimited_until, now, failed,
                   assert_failed>>

\* The attempt ends and its permit is dropped (downloader.rs:273 or the
\* return of an error); an attempt answered 429 first calls
\* set_ratelimited_for(5), downloader.rs:184-192 and ratelimiter.rs:43-47.
\* The model follows the penalties that end within the horizon of the clock.
RlRelease(c, ratelimited) ==
    /\ cl[c].pc = "holding"
    /\ ratelimited => now + RATELIMIT_PENALTY_SECS <= MaxTime
    /\ cl' = [cl EXCEPT ![c].pc = "idle"]
    /\ permits' = permits \ {c}
    /\ ratelimited_until' = IF ratelimited THEN now + RATELIMIT_PENALTY_SECS
                            ELSE ratelimited_until
    /\ UNCHANGED <<sweepvars, openvars, chunk_preload, entries, cached, downloading,
                   accessed_at_secs, disk, bin_exists, meta, duration_hint_secs, readers,
                   rd, tasks, now, failed, assert_failed>>

\* The clock advances while a caller sleeps on the penalty deadline.
RlTick ==
    /\ now < MaxTime
    /\ \E c \in Clients : cl[c].pc = "sleeping" /\ now < cl[c].sleep
    /\ now' = now + 1
    /\ UNCHANGED <<sweepvars, openvars, cl, chunk_preload, entries, cached, downloading,
                   accessed_at_secs, disk, bin_exists, meta, duration_hint_secs, readers,
                   rd, tasks, permits, ratelimited_until, failed,
                   assert_failed>>

\* ---------------------------------------------------------------- Sweeper
\* Chunk::get_priority, chunk.rs:63-109, evaluated when the clock shows t by
\* a build with or without overflow checks.  The u64 subtraction of
\* chunk.rs:91 underflows when preload_end exceeds total_chunks: a build with
\* overflow checks panics there ("Overflow"), one without wraps to a value
\* above every chunk index, so that the comparison is false.  "Panic" is the
\* panic! of chunk.rs:105.
get_priority_in(k, t, overflow_checks) ==
    LET index == k[2]
        fsize == file_size(k[1])
        accessed_at == accessed_at_secs[k]
        abs_diff == IF t >= accessed_at THEN t - accessed_at ELSE accessed_at - t
        total == (fsize + DEFAULT_CHUNK_SIZE - 1) \div DEFAULT_CHUNK_SIZE
        center == chunk_offset(index) + chunk_size(k[1], index) \div 2
        percent == (center * 100) \div fsize
        hits == {i \in 1 .. Len(PRIORITY_RANGES) :
                    PRIORITY_RANGES[i].lo <= percent /\ percent <= PRIORITY_RANGES[i].hi}
        underflow == chunk_preload # <<>> /\ total < chunk_preload[2]
    IN  IF abs_diff < cache_grace_period_secs THEN "GracePeriod"
        ELSE IF index = 0 THEN "FirstChunk"
        ELSE IF index = total - 1 THEN "LastChunk"
        ELSE IF chunk_preload # <<>> /\ index <= chunk_preload[1] THEN "Preloaded"
        ELSE IF underflow /\ overflow_checks THEN "Overflow"
        ELSE IF chunk_preload # <<>> /\ ~underflow /\ index >= total - chunk_preload[2]
        THEN "Preloaded"
        ELSE IF hits # {}
        THEN PRIORITY_RANGES[CHOOSE i \in hits : \A j \in hits : i <= j].priority
        ELSE "Panic"

\* Chunk::get_priority as the sweeper calls it, mod.rs:190; the builds differ
\* only where chunk_preload is set.
get_priority(k, t) == get_priority_in(k, t, FALSE)

\* A get_priority call: the chunk, the clock and the priority it returned.
IdlePriority == [pc |-> "idle", k |-> <<0, 0>>, t |-> 0, priority |-> "none"]

\* The values of Config.chunk_preload: none, the default (4, 1) of
\* config.rs:35, and pairs around the chunk counts of the files.
Preloads == {<<>>, <<4, 1>>, <<0, 0>>, <<1, 1>>, <<0, 5>>, <<2, 7>>}

\* chunk.rs:63-109: get_priority of chunk k at time t.
PriorityCall(k, t, overflow_checks) ==
    /\ pr.pc = "idle"
    /\ pr' = [pc |-> "done", k |-> k, t |-> t,
              priority |-> get_priority_in(k, t, overflow_checks)]
    /\ UNCHANGED <<sweepvars, op, created, ld, ra, lk, fl, boot, tl, cl, chunk_preload, entries,
                   cached, downloading, accessed_at_secs, disk, bin_exists, meta,
                   duration_hint_secs, readers, rd, tasks, permits, ratelimited_until, now,
                   failed, assert_failed>>

\* The comparator of all_chunks.sort_by, mod.rs:205-217: a sorts strictly
\* before b.
sweep_less(a, b) ==
    \/ ChunkPriority[a.priority] < ChunkPriority[b.priority]
    \/ /\ ChunkPriority[a.priority] = ChunkPriority[b.priority]
       /\ accessed_at_secs[a.k] < accessed_at_secs[b.k]

\* Vec::sort_by is stable: x goes behind every element that does not sort
\* strictly after it.
sort_insert(sorted, x) ==
    LET n == Cardinality({i \in 1 .. Len(sorted) : ~sweep_less(x, sorted[i])})
    IN  SubSeq(sorted, 1, n) \o <<x>> \o SubSeq(sorted, n + 1, Len(sorted))

RECURSIVE sort_by(_)
sort_by(s) ==
    IF s = <<>> THEN <<>>
    ELSE sort_insert(sort_by(SubSeq(s, 1, Len(s) - 1)), s[Len(s)])

RECURSIVE SumSizes(_)
\* The sum of chunk.size over the chunk keys ks.
SumSizes(ks) ==
    IF ks = {} THEN 0
    ELSE LET k == CHOOSE x \in ks : TRUE
         IN  chunk_size(k[1], k[2]) + SumSizes(ks \ {k})

IdleSweep == [pc |-> "sleep", todo |-> <<>>, all_chunks |-> <<>>, total_size_bytes |-> 0,
              total_removed_bytes |-> 0, idx |-> 0,
              evicted |-> <<>>, skipped |-> {}, returned |-> FALSE, error |-> FALSE,
              post |-> {},
              busy |-> FALSE,     \* CacheEntry::try_remove of the entry in hand returned false
              tried |-> {}]       \* history: <<file, outcome>> of the try_remove calls

\* History: the cached chunks and their priorities when a pass completes.
post_sweep == {[k |-> k, priority |-> get_priority(k, now)] : k \in {x \in ChunkKeys : cached[x]}}

\* mod.rs:240-246 and 198-204: the pass is over, the loop sleeps again.
sweep_finished(s) == [s EXCEPT !.pc = "sleep", !.returned = TRUE, !.post = post_sweep]

\* The `?` of mod.rs:162,167,228: start_sweeper returns the error and is
\* started again by run_with_retry (main.rs:216-231).
sweep_failed(s) == [s EXCEPT !.pc = "sleep", !.error = TRUE]

\* A pass that also stops when the total equals cache_max_size.
after_scan_at_max(s) ==
    IF s.todo # <<>> THEN s
    ELSE IF s.total_size_bytes <= cache_max_size THEN sweep_finished(s)
    ELSE IF s.all_chunks = <<>> THEN sweep_finished(s)
    ELSE [s EXCEPT !.all_chunks = sort_by(s.all_chunks), !.idx = 1, !.pc = "try_lock"]

\* mod.rs:198-219: every entry is scanned; below cache_max_size the pass is
\* over, otherwise the chunks are sorted and the eviction loop starts.
after_scan(s) ==
    IF s.todo # <<>> THEN s
    ELSE IF s.total_size_bytes < cache_max_size THEN sweep_finished(s)
    ELSE IF s.all_chunks = <<>> THEN sweep_finished(s)
    ELSE [s EXCEPT !.all_chunks = sort_by(s.all_chunks), !.idx = 1, !.pc = "try_lock"]

\* The orders in which HashMap::values yields the entries, mod.rs:153-156.
EntryOrders ==
    LET present == {f \in Files : entries[f] # 0}
    IN  {o \in [1 .. Cardinality(present) -> present] :
            \A i, j \in 1 .. Cardinality(present) : i # j => o[i] # o[j]}

\* mod.rs:146-156: the sleep of the sweep interval is over; the entries are
\* collected in the order HashMap::values yields them.
SweepWake(order) ==
    /\ sw.pc = "sleep"
    /\ now + cache_sweep_interval_secs <= LastSweep
    /\ order \in EntryOrders
    /\ now' = now + cache_sweep_interval_secs
    /\ sw' = [IdleSweep EXCEPT !.pc = "scan", !.todo = order, !.tried = sw.tried]
    /\ UNCHANGED <<db_files, openvars, cl, chunk_preload, entries, cached, downloading,
                   accessed_at_secs, disk, bin_exists, meta, duration_hint_secs, readers,
                   rd, tasks, permits, ratelimited_until, failed,
                   assert_failed>>

\* The chunks of entry f that the scan of mod.rs:184-194 collects.
collect(f) ==
    [i \in 1 .. Cardinality({c \in Indexes(f) : cached[<<f, c>>]}) |->
        LET c == CHOOSE x \in Indexes(f) :
                    /\ cached[<<f, x>>]
                    /\ Cardinality({y \in Indexes(f) : cached[<<f, y>>] /\ y < x}) = i - 1
        IN  [k |-> <<f, c>>, priority |-> get_priority(<<f, c>>, now)]]

\* drop(guards) without effect.
release_guards_leak(f) == downloading

\* The guards try_remove collected are dropped when it returns, entry.rs:150-163.
release_guards(f) ==
    [k \in ChunkKeys |-> IF k[1] = f /\ downloading[k] = BySweeper THEN Free
                         ELSE downloading[k]]

\* mod.rs:158-195, one entry: the row of the file is looked up; for an entry
\* without a row CacheEntry::try_remove is called; the cached chunks of an
\* entry with a row, or of one that try_remove reported busy, are collected.
SweepScan ==
    /\ sw.pc = "scan"
    /\ IF sw.todo = <<>>
       THEN sw' = after_scan(sw)
       ELSE LET f == Head(sw.todo)
                rest == [sw EXCEPT !.todo = Tail(@), !.busy = FALSE]
                scanned == [rest EXCEPT
                              !.all_chunks = @ \o collect(f),
                              !.total_size_bytes =
                                  @ + SumSizes({<<f, c>> : c \in {x \in Indexes(f) : cached[<<f, x>>]}})]
                panics == \E i \in 1 .. Len(collect(f)) : collect(f)[i].priority \in {"Panic", "Overflow"}
            IN  IF f \notin db_files /\ ~sw.busy
                THEN sw' = [sw EXCEPT !.pc = "rm_lock", !.idx = 0]
                ELSE sw' = IF panics THEN sweep_failed(rest) ELSE after_scan(scanned)
    /\ UNCHANGED <<db_files, openvars, cl, chunk_preload, entries, cached, downloading,
                   accessed_at_secs, disk, bin_exists, meta, duration_hint_secs, readers, rd,
                   tasks, permits, ratelimited_until, now, failed, assert_failed>>

\* CacheEntry::try_remove, entry.rs:151-157: try_lock of the guard of the
\* next chunk; a held guard ends the call with Ok(false), which drops the
\* guards taken so far.
EntryTryLock ==
    /\ sw.pc = "rm_lock"
    /\ LET f == Head(sw.todo)
           k == <<f, sw.idx>>
       IN  IF downloading[k] # Free
           THEN /\ downloading' = release_guards(f)
                /\ sw' = [sw EXCEPT !.pc = "scan", !.idx = 0, !.busy = TRUE,
                                    !.tried = @ \cup {<<f, "busy">>}]
           ELSE /\ downloading' = [downloading EXCEPT ![k] = BySweeper]
                /\ sw' = IF sw.idx = total_chunks(f) - 1
                         THEN [sw EXCEPT !.pc = "rm_bin", !.idx = 0]
                         ELSE [sw EXCEPT !.idx = @ + 1]
    /\ UNCHANGED <<db_files, openvars, cl, chunk_preload, entries, cached,
                   accessed_at_secs, disk, bin_exists, meta, duration_hint_secs, readers, rd,
                   tasks, permits, ratelimited_until, now, failed, assert_failed>>

\* entry.rs:159: remove_file of <id>.bin.  A read_bytes call that has the
\* file open keeps reading the unlinked file; a file that does not exist is
\* an error, which start_sweeper returns.
EntryRemoveBin ==
    /\ sw.pc = "rm_bin"
    /\ LET f == Head(sw.todo)
       IN  IF bin_exists[f]
           THEN /\ bin_exists' = [bin_exists EXCEPT ![f] = FALSE]
                /\ disk' = [k \in ChunkKeys |-> IF k[1] = f THEN "hole" ELSE disk[k]]
                /\ rd' = [r \in ReaderIds |->
                            IF rd[r].pc = "read" /\ rd[r].f = f /\ rd[r].bytes = <<>>
                            THEN [rd[r] EXCEPT !.bytes =
                                    [i \in 1 .. (end_chunk_index(r) - start_chunk_index(r) + 1)
                                        |-> disk[<<f, start_chunk_index(r) + i - 1>>]]]
                            ELSE rd[r]]
                /\ sw' = [sw EXCEPT !.pc = "rm_meta"]
                /\ UNCHANGED downloading
           ELSE /\ downloading' = release_guards(f)
                /\ sw' = sweep_failed([sw EXCEPT !.tried = @ \cup {<<f, "error">>}])
                /\ UNCHANGED <<bin_exists, disk, rd>>
    /\ UNCHANGED <<db_files, openvars, cl, chunk_preload, entries, cached,
                   accessed_at_secs, meta, duration_hint_secs, readers,
                   tasks, permits, ratelimited_until, now, failed, assert_failed>>

\* entry.rs:160-162 and mod.rs:168-174: remove_file of <id>.cachemeta, then
\* try_remove returns Ok(true) and the sweeper takes the entry out of the
\* map; a sidecar that does not exist is an error.
EntryRemoveMeta ==
    /\ sw.pc = "rm_meta"
    /\ LET f == Head(sw.todo)
       IN  /\ downloading' = release_guards(f)
           /\ IF meta[f].exists
              THEN /\ meta' = [meta EXCEPT ![f] = [exists |-> FALSE, cached |-> {}]]
                   /\ entries' = [entries EXCEPT ![f] = 0]
                   /\ sw' = after_scan([sw EXCEPT !.pc = "scan", !.todo = Tail(@),
                                                  !.tried = @ \cup {<<f, "removed">>}])
              ELSE /\ sw' = sweep_failed([sw EXCEPT !.tried = @ \cup {<<f, "error">>}])
                   /\ UNCHANGED <<meta, entries>>
    /\ UNCHANGED <<db_files, openvars, cl, chunk_preload, cached,
                   accessed_at_secs, disk, bin_exists, duration_hint_secs, readers, rd,
                   tasks, permits, ratelimited_until, now, failed, assert_failed>>

\* block_torrent, helpers/block_torrent.rs:16-19: the rows of the files of a
\* torrent are deleted from the metadata store.
block_torrent(f) ==
    /\ f \in db_files
    /\ db_files' = db_files \ {f}
    /\ UNCHANGED <<sw, openvars, cl, chunk_preload, entries, cached, downloading,
                   accessed_at_secs, disk, bin_exists, meta, duration_hint_secs, readers, rd,
                   tasks, permits, ratelimited_until, now, failed, assert_failed>>

\* mod.rs:229-235: the accounting after Chunk::try_remove returned `removed`
\* for all_chunks[idx], and the end of the loop.
after_try_remove(s, removed) ==
    LET item == s.all_chunks[s.idx]
        size == chunk_size(item.k[1], item.k[2])
        counted == IF removed
                   THEN [s EXCEPT !.total_removed_bytes = @ + size,
                                  !.total_size_bytes = @ - size,
                                  !.evicted = Append(@, item)]
                   ELSE [s EXCEPT !.skipped = @ \cup {item.k}]
    IN  IF removed /\ counted.total_size_bytes < cache_target_size
        THEN sweep_finished(counted)
        ELSE IF s.idx = Len(s.all_chunks) THEN sweep_finished(counted)
        ELSE [counted EXCEPT !.idx = @ + 1, !.pc = "try_lock"]

\* A try_lock that succeeds on a held guard.
try_lock_held(k) == TRUE

\* chunk.rs:125, self.downloading.try_lock(): succeeds when nobody holds the
\* guard of chunk k.
try_lock(k) == downloading[k] = Free

\* chunk.rs:125-137: try_lock of the guard; a held guard skips the chunk, a
\* chunk that is not cached is an error.
SweepTryLock ==
    /\ sw.pc = "try_lock"
    /\ LET k == sw.all_chunks[sw.idx].k
       IN  IF ~try_lock(k)
           THEN /\ sw' = after_try_remove(sw, FALSE)
                /\ UNCHANGED downloading
           ELSE IF ~cached[k]
           THEN /\ sw' = sweep_failed(sw)
                /\ UNCHANGED downloading
           ELSE /\ sw' = [sw EXCEPT !.pc = "punch"]
                /\ downloading' = [downloading EXCEPT ![k] = BySweeper]
    /\ UNCHANGED <<db_files, openvars, cl, chunk_preload, entries, cached,
                   accessed_at_secs, disk, bin_exists, meta, duration_hint_secs, readers,
                   rd, tasks, permits, ratelimited_until, now, failed,
                   assert_failed>>

\* chunk.rs:139-153: the backing file is opened and the extent of the chunk
\* is punched out.
SweepPunch ==
    /\ sw.pc = "punch"
    /\ LET k == sw.all_chunks[sw.idx].k
       IN  IF bin_exists[k[1]]
           THEN /\ disk' = [disk EXCEPT ![k] = "hole"]
                /\ sw' = [sw EXCEPT !.pc = "clear"]
                /\ UNCHANGED downloading
           ELSE /\ sw' = sweep_failed(sw)
                /\ downloading' = [downloading EXCEPT ![k] = Free]
                /\ UNCHANGED disk
    /\ UNCHANGED <<db_files, openvars, cl, chunk_preload, entries, cached,
                   accessed_at_secs, bin_exists, meta, duration_hint_secs, readers, rd,
                   tasks, permits, ratelimited_until, now, failed,
                   assert_failed>>

\* chunk.rs:155-156: cached is cleared and the guard dropped.
SweepClear ==
    /\ sw.pc = "clear"
    /\ LET k == sw.all_chunks[sw.idx].k
       IN  /\ cached' = [cached EXCEPT ![k] = FALSE]
           /\ downloading' = [downloading EXCEPT ![k] = Free]
    /\ sw' = [sw EXCEPT !.pc = "flush"]
    /\ UNCHANGED <<db_files, openvars, cl, chunk_preload, entries, accessed_at_secs, disk,
                   bin_exists, meta, duration_hint_secs, readers, rd, tasks, permits,
                   ratelimited_until, now, failed, assert_failed>>

\* chunk.rs:158-165 and mod.rs:229-235: the sidecar is flushed, try_remove
\* returns true and the loop accounts for the chunk.
SweepFlush ==
    /\ sw.pc = "flush"
    /\ meta' = flush_cache_meta(sw.all_chunks[sw.idx].k[1], cached)
    /\ sw' = after_try_remove(sw, TRUE)
    /\ UNCHANGED <<db_files, openvars, cl, chunk_preload, entries, cached, downloading,
                   accessed_at_secs, disk, bin_exists, duration_hint_secs, readers, rd,
                   tasks, permits, ratelimited_until, now, failed,
                   assert_failed>>

Sweep ==
    \/ \E order \in EntryOrders : SweepWake(order)
    \/ SweepScan
    \/ SweepTryLock
    \/ SweepPunch
    \/ SweepClear
    \/ SweepFlush

\* ------------------------------------------- CacheEntry::flush_cache_meta
\* The steps of one flush_cache_meta call, entry.rs:142-147, as the calling
\* task takes them: File::create, then serde_json::to_writer, which reads
\* the fields of one chunk after the other and writes them through the
\* task's own file descriptor.  The calls of different tasks are not
\* synchronised with each other.

\* downloader.rs:253 and chunk.rs:158: the task is at its call.
at_flush(a) == IF a = 0 THEN sw.pc = "flush" ELSE tasks[a].pc = "flush"

\* The entry whose sidecar the task flushes.
flush_file(a) == IF a = 0 THEN sw.all_chunks[sw.idx].k[1] ELSE tasks[a].f

\* downloader.rs:251: the chunk at current_chunk_index is published; the
\* flush of the sidecar follows.
DlStore(t) ==
    /\ tasks[t].pc = "publish"
    /\ cached' = [cached EXCEPT ![<<tasks[t].f, current_chunk(t)>>] = TRUE]
    /\ tasks' = [tasks EXCEPT ![t].pc = "flush"]
    /\ UNCHANGED <<sweepvars, openvars, cl, chunk_preload, entries, downloading, accessed_at_secs, disk,
                   bin_exists, meta, duration_hint_secs, readers, rd, permits,
                   ratelimited_until, now, failed, assert_failed>>

\* The caller after the flush returned, with Ok or with the Err that is
\* logged: downloader.rs:255-269 advances the publishing loop, chunk.rs:
\* 159-165 returns true and mod.rs:229-235 accounts for the chunk.
flush_returned(a) ==
    IF a = 0
    THEN /\ sw' = after_try_remove(sw, TRUE)
         /\ UNCHANGED tasks
    ELSE /\ tasks' = [tasks EXCEPT ![a].k = @ + 1,
                                   ![a].pc = IF tasks[a].k + 1 < tasks[a].written
                                             THEN "publish" ELSE "stream"]
         /\ UNCHANGED sw

\* The unwrap of entry.rs:144 panics and the task unwinds: a download task
\* drops its permit and the guards of its batch, the sweeper task ends (the
\* retry wrapper of main.rs:219-229 restarts start_sweeper on Err only).
flush_panicked(a) ==
    IF a = 0
    THEN /\ sw' = [sw EXCEPT !.pc = "panicked"]
         /\ UNCHANGED <<tasks, permits, downloading, failed, rd>>
    ELSE /\ tasks' = [tasks EXCEPT ![a] = NoTask]
         /\ permits' = drop_permit(a)
         /\ downloading' = drop_chunks(a)
         /\ failed' = [open |-> failed.open \cup unpublished(a),
                       all |-> failed.all \cup unpublished(a)]
         /\ rd' = [r \in ReaderIds |->
                     [rd[r] EXCEPT !.doomed = @ \cup waiting_on(r, unpublished(a))]]
         /\ UNCHANGED sw

\* entry.rs:144: File::create opens the sidecar and truncates it; ok is
\* whether the file could be created.
FlushCreate(a, ok) ==
    /\ at_flush(a)
    /\ fl[a].pc = "idle"
    /\ IF ok
       THEN /\ meta' = [meta EXCEPT ![flush_file(a)] = [exists |-> TRUE, cached |-> {}]]
            /\ fl' = [fl EXCEPT ![a] = [IdleFlush EXCEPT !.pc = "load", !.f = flush_file(a)]]
            /\ UNCHANGED <<sw, tasks, permits, downloading, failed, rd>>
       ELSE /\ fl' = [fl EXCEPT ![a] = [IdleFlush EXCEPT !.result = "Panic"]]
            /\ flush_panicked(a)
            /\ UNCHANGED meta
    /\ UNCHANGED <<db_files, op, created, ld, ra, lk, boot, pr, tl, cl, chunk_preload, entries, cached,
                   accessed_at_secs, disk, bin_exists, duration_hint_secs, readers,
                   ratelimited_until, now, assert_failed>>

\* chunk.rs:38-47 and 211-213: the serializer reads the cached flag of the
\* chunk it is at.
FlushLoad(a) ==
    /\ fl[a].pc = "load"
    /\ fl' = [fl EXCEPT ![a].pc = "store", ![a].val = cached[<<fl[a].f, fl[a].i>>]]
    /\ UNCHANGED <<sweepvars, op, created, ld, ra, lk, boot, pr, tl, cl, chunk_preload, entries, cached,
                   downloading, accessed_at_secs, disk, bin_exists, meta, duration_hint_secs,
                   readers, rd, tasks, permits, ratelimited_until, now, failed,
                   assert_failed>>

\* chunk.rs:211-213: the record of the chunk is written at the position of
\* the task's descriptor; ok is whether the write succeeded.  A failed
\* write ends the call with Err, the last record ends it with Ok.
FlushStore(a, ok) ==
    /\ fl[a].pc = "store"
    /\ LET f == fl[a].f
           i == fl[a].i
           last == i + 1 = total_chunks(f)
       IN  /\ meta' = IF ok
                      THEN [meta EXCEPT ![f].cached = IF fl[a].val THEN @ \cup {i}
                                                      ELSE @ \ {i}]
                      ELSE meta
           /\ IF ok /\ ~last
              THEN /\ fl' = [fl EXCEPT ![a].pc = "load", ![a].i = i + 1]
                   /\ UNCHANGED <<sw, tasks>>
              ELSE /\ fl' = [fl EXCEPT ![a] = [IdleFlush EXCEPT
                                                 !.result = IF ok THEN "Ok" ELSE "Err"]]
                   /\ flush_returned(a)
    /\ UNCHANGED <<db_files, op, created, ld, ra, lk, boot, pr, tl, cl, chunk_preload, entries, cached,
                   downloading, accessed_at_secs, disk, bin_exists, duration_hint_secs,
                   readers, rd, permits, ratelimited_until, now, failed, assert_failed>>

\* A flush_cache_meta call of task a on a file system that answers as oks.
Flush(a, oks) ==
    \/ \E ok \in oks : FlushCreate(a, ok)
    \/ FlushLoad(a)
    \/ \E ok \in oks : FlushStore(a, ok)

\* ------------------------------------------------------------------- Init
\* The state after Cache::load and after upsert_entry created the entries
\* ents: CacheEntry::load, entry.rs:64-102, reads the chunk flags and
\* timestamps of a file from its sidecar.  warm are the chunks the sidecars
\* list as cached, accessed their persisted timestamps, t0 the clock; bins
\* are the files whose <id>.bin exists and synced the chunks whose extent is
\* in it.
InitLoaded(preload, ents, hint, warm, synced, bins, accessed, t0) ==
    /\ chunk_preload = preload
    /\ entries = [f \in Files |-> IF f \in ents THEN f ELSE 0]
    /\ created = Cardinality(ents)
    /\ db_files = Files
    /\ sw = IdleSweep
    /\ op = [o \in OpenIds |-> IdleOpen]
    /\ ld = IdleLoad
    /\ ra = IdleAhead
    /\ lk = IdleLink
    /\ fl = [a \in Flushers |-> IdleFlush]
    /\ boot = Booted
    /\ pr = IdlePriority
    /\ tl = <<>>
    /\ cl = [c \in Clients |-> IdleClient]
    /\ cached = [k \in ChunkKeys |-> k \in warm]
    /\ downloading = [k \in ChunkKeys |-> Free]
    /\ accessed_at_secs = [k \in ChunkKeys |-> accessed[k[1]]]
    /\ disk = [k \in ChunkKeys |-> IF k \in synced THEN "data" ELSE "hole"]
    /\ bin_exists = [f \in Files |-> f \in bins]
    /\ meta = [f \in Files |-> [exists |-> \E k \in warm : k[1] = f,
                                cached |-> {i \in Indexes(f) : <<f, i>> \in warm}]]
    /\ duration_hint_secs = [f \in Files |-> hint]
    /\ readers = [f \in Files |-> <<>>]
    /\ rd = [r \in ReaderIds |-> IdleRead]
    /\ tasks = [t \in Tasks |-> NoTask]
    /\ permits = {}
    /\ ratelimited_until = 0
    /\ now = t0
    /\ failed = [open |-> {}, all |-> {}]
    /\ assert_failed = FALSE

\* No sidecar on disk.
InitCold(preload, ents, hint) ==
    InitLoaded(preload, ents, hint, {}, {}, {}, [f \in Files |-> 0], 0)

\* Reads of the first MiB and of a MiB across the boundary of chunks 0 and 1.
ReadInputs == {<<0, 1024>>, <<DEFAULT_CHUNK_SIZE - 512, 1024>>}

\* The errors of a server that never answers 429.
CoreErrors == {e \in StartErrors \cup SendErrors \cup StreamErrors : e[1] # "Ratelimited"}

Init == InitCold(<<>>, {1}, 0)

Read(r, inputs) ==
    \/ \E f \in Files, in \in inputs : ReadStart(r, f, in[1], in[2])
    \/ QueueLoad(r)
    \/ QueueLock(r)
    \/ WaitLock(r)
    \/ WaitLoad(r)
    \/ ReadOpen(r)
    \/ ReadFile(r)

Download(t, errors) ==
    \/ DlStart(t)
    \/ DlAcquire(t)
    \/ DlSend(t)
    \/ \E j \in 0 .. NumChunks + 2 : DlWrite(t, j)
    \/ DlPublish(t)
    \/ DlFinish(t)
    \/ \E e \in errors : DlError(t, e)
    \/ DlWake(t)

\* Readers and download tasks of one cold file; the server never answers 429.
Next ==
    \/ \E r \in ReaderIds : Read(r, ReadInputs)
    \/ \E t \in Tasks : Download(t, CoreErrors)

Spec == Init /\ [][Next]_vars

\* ---------------------------------------------------------------- sweeping
\* A cache loaded from sidecars: chunk 0 of file 1 and chunks 2 and 5 (a Low
\* and the last chunk) of file 2 are cached, 2.25 chunks in total; file 2
\* was accessed one second after file 1.  The process has been up for one or
\* two seconds.
WarmChunks == {<<1, 0>>, <<2, 2>>, <<2, 5>>}
InitSweep ==
    \E t0 \in {1, 2} :
        InitLoaded(<<>>, CacheFiles, 0, WarmChunks, WarmChunks, CacheFiles,
                   [f \in Files |-> f - 1], t0)

SweepDownload(t) ==
    \/ DlStart(t)
    \/ DlAcquire(t)
    \/ DlSend(t)
    \/ \E j \in 1 .. NumChunks : DlWrite(t, j)
    \/ DlPublish(t)
    \/ DlFinish(t)

\* The sweeper next to one read_bytes call on file 1 and its downloads,
\* which succeed.
NextSweep ==
    \/ Sweep
    \/ \E r \in {1} : Read(r, ReadInputs)
    \/ \E t \in Tasks : SweepDownload(t)

SpecSweep == InitSweep /\ [][NextSweep]_vars

\* ------------------------------------------------------- sidecar flushes
\* A download whose publishing loop flushes the sidecar step by step.
FlushDownload(t) ==
    \/ DlStart(t)
    \/ DlAcquire(t)
    \/ DlSend(t)
    \/ \E j \in 1 .. NumChunks : DlWrite(t, j)
    \/ DlStore(t)
    \/ DlFinish(t)

\* The sweeper up to the flush of Chunk::try_remove.
FlushSweep ==
    \/ \E order \in EntryOrders : SweepWake(order)
    \/ SweepScan
    \/ SweepTryLock
    \/ SweepPunch
    \/ SweepClear

\* A read_bytes call at the head of file 1.
FlushRead(r) ==
    \/ ReadStart(r, 1, 0, 1024)
    \/ QueueLoad(r)
    \/ QueueLock(r)
    \/ WaitLock(r)
    \/ WaitLoad(r)
    \/ ReadOpen(r)
    \/ ReadFile(r)

\* The cache of InitSweep after two seconds: one pass of the sweeper follows.
InitFlush ==
    InitLoaded(<<>>, CacheFiles, 0, WarmChunks, WarmChunks, CacheFiles,
               [f \in Files |-> f - 1], 2)

\* The sweeper next to one read_bytes call at the head of file 1 and its
\* downloads, with the flushes of the download tasks and of the sweeper
\* interleaved.
NextFlush(oks) ==
    \/ FlushSweep
    \/ FlushRead(1)
    \/ \E t \in Tasks : FlushDownload(t)
    \/ \E a \in Flushers : Flush(a, oks)

\* Every File::create and every write of a flush succeeds.
NextFlushOk == NextFlush({TRUE})

SpecFlush == InitFlush /\ [][NextFlushOk]_vars

\* File::create and the writes of a flush can fail.
NextFlushFail == NextFlush(BOOLEAN)

SpecFlushFail == InitFlush /\ [][NextFlushFail]_vars

\* ------------------------------------------------------------ entry removal
Remove ==
    \/ EntryTryLock
    \/ EntryRemoveBin
    \/ EntryRemoveMeta

\* The sweeper with entry removal: the row of file 1 can be deleted while
\* one read_bytes call and its downloads run.
InitRemove ==
    InitLoaded(<<>>, CacheFiles, 0, WarmChunks, WarmChunks, CacheFiles,
               [f \in Files |-> f - 1], 1)

NextRemove ==
    \/ \E f \in {1} : block_torrent(f)
    \/ Sweep
    \/ Remove
    \/ \E r \in {1} : Read(r, ReadInputs)
    \/ \E t \in Tasks : SweepDownload(t)

SpecRemove == InitRemove /\ [][NextRemove]_vars

\* ------------------------------------------------- removal and re-creation
\* The chunk flags and guards of the model are those of one CacheEntry
\* instance per file.  Once upsert_entry has created a new instance for a
\* file, read_bytes calls and download tasks of the instance that was
\* removed are still there but take no further step.
Live(e, f) == f \in Files => (entries[f] = 0 \/ entries[f] = e)

\* Entry removal next to LuminFS::read calls on file 1, the only file with an
\* entry, of which chunk 0 is cached: a call reads the row of the file, calls
\* upsert_entry and then read_bytes on the entry it got; the row can be
\* deleted and the entry removed in between.  The cache stays below
\* cache_max_size, so the sweeper evicts no chunk.
InitReopen ==
    InitLoaded(<<>>, {1}, 0, {<<1, 0>>}, {<<1, 0>>}, {1}, [f \in Files |-> 0], 1)

NextReopen ==
    \/ \E f \in {1} : block_torrent(f)
    \/ \E order \in EntryOrders : SweepWake(order)
    \/ SweepScan
    \/ Remove
    \/ \E o \in {1}, f \in {1} : FuseFind(o, f)
    \/ \E o \in {1}, f \in {1} : op[o].pc = "found" /\ OpenRead(o, f)
    \/ \E o \in {1} : OpenWrite(o)
    \/ \E r \in ReaderIds :
          /\ Live(rd[r].entry, rd[r].f)
          /\ Read(r, {<<0, 1024>>})
    \/ \E t \in Tasks : Live(tasks[t].entry, tasks[t].f) /\ SweepDownload(t)

SpecReopen == InitReopen /\ [][NextReopen]_vars

\* ------------------------------------------------------------------ retries
\* 429 answers with a retry hint whose sleeps end within the horizon of the
\* clock.
RetryErrors == {e \in SendErrors : e[1] = "Ratelimited" /\ e[2] \in Hints}

RetryDownload(t) ==
    \/ DlStart(t)
    \/ DlAcquire(t)
    \/ DlRatelimitWake(t)
    \/ DlSend(t)
    \/ \E j \in 1 .. NumChunks : DlWrite(t, j)
    \/ DlPublish(t)
    \/ DlFinish(t)
    \/ \E e \in RetryErrors :
          /\ now + Max(e[2], RATELIMIT_PENALTY_SECS) <= MaxSleep
          /\ DlError(t, e)
    \/ DlWakeAt(t)

\* read_bytes calls on one cold file, their downloads against a server that
\* answers 429 with a retry hint, and the clock.
NextRetry ==
    \/ \E r \in ReaderIds : Read(r, ReadInputs)
    \/ \E t \in Tasks : RetryDownload(t)
    \/ Tick

SpecRetry == Init /\ [][NextRetry]_vars

\* ----------------------------------------------------------- every answer
\* One attempt after the other of a download against a server that may give
\* any answer to any request.  The clock is not followed: a sleep ends at
\* some time, and a penalty deadline is taken to lie ahead of every later
\* attempt.
BackoffDownload(t) ==
    \/ DlStart(t)
    \/ DlAcquire(t)
    \/ DlPenaltyOver(t)
    \/ DlSend(t)
    \/ \E j \in 1 .. NumChunks : DlWrite(t, j)
    \/ DlPublish(t)
    \/ DlFinish(t)
    \/ \E e \in StartErrors \cup SendErrors \cup StreamErrors : DlError(t, e)
    \/ DlBackoffOver(t)

\* One read_bytes call for the first MiB of a cold file and its download.
NextBackoff ==
    \/ Read(1, {<<0, 1024>>})
    \/ \E t \in Tasks : BackoffDownload(t)

SpecBackoff == Init /\ [][NextBackoff]_vars

\* tokio polls a spawned task whenever it can proceed (entry.rs:429),
\* and every request, sleep and file operation completes: a download task
\* that can take a step takes one.  Which answer the server gives is free.
SpecBackoffLive == SpecBackoff /\ \A t \in Tasks : WF_vars(BackoffDownload(t))

\* ------------------------------------------------------- lost file extents
\* The process starts after a crash between the flush of the sidecar and the
\* sync of the backing file, or after <id>.bin was deleted: the sidecar of
\* file 1 lists chunk 0 as cached, the extent of the chunk is absent.
\* Cache::load (mod.rs:35-90) creates the entry when <id>.bin exists,
\* otherwise upsert_entry does.
LostChunks == {<<1, 0>>}

InitLost ==
    \E bins \in {{}, {1}} :
        InitLoaded(<<>>, bins, 0, LostChunks, {}, bins, [f \in Files |-> 0], 0)

NextLost ==
    \/ \E o \in OpenIds, f \in {1} : OpenRead(o, f)
    \/ \E o \in OpenIds : OpenWrite(o)
    \/ \E r \in ReaderIds : Read(r, ReadInputs)
    \/ \E t \in Tasks : SweepDownload(t)

SpecLost == InitLost /\ [][NextLost]_vars

\* --------------------------------------------------------- worked examples
\* One read_bytes call of 4 KiB or of 1 MiB at offset 0 on a cold file: the
\* file of 80 MiB with chunk_preload = (4, 1), or the file of 32 MiB without
\* preload.  No duration hint; the downloads succeed.
ExampleInputs == {<<0, 4>>, <<0, 1024>>}

InitExample ==
    \/ InitCold(<<4, 1>>, {3}, 0)
    \/ InitCold(<<>>, {4}, 0)

NextExample ==
    \/ \E r \in {1} : Read(r, ExampleInputs)
    \/ \E t \in Tasks : SweepDownload(t)

SpecExample == InitExample /\ [][NextExample]_vars

\* -------------------------------------------------- building chunk vectors
NextLoad ==
    \/ \E S \in LoadSizes : LoadCall(S)
    \/ LoadPush

SpecLoad == InitCold(<<>>, {}, 0) /\ [][NextLoad]_vars

\* ------------------------------------------------- sizing the read-ahead
NextAhead == \E S \in AheadSizes, d \in AheadHints, b \in AheadRead : AheadCall(S, d, b)

SpecAhead == InitCold(<<>>, {}, 0) /\ [][NextAhead]_vars

\* Debrid::get_download_link calls on an empty url_cache.
SpecLink == Init /\ [][NextLink]_vars

\* ---------------------------------------------------------- chunk priority
\* The chunks of the four files, last accessed at 0, under each value of
\* chunk_preload.
InitPriority == \E preload \in Preloads : InitCold(preload, Files, 0)

NextPriority ==
    \E k \in ChunkKeys, t \in 0 .. cache_grace_period_secs, overflow_checks \in BOOLEAN :
        PriorityCall(k, t, overflow_checks)

SpecPriority == InitPriority /\ [][NextPriority]_vars

\* ------------------------------------------------------- reader tracking
NextTouch == \E offset \in TouchOffsets, size \in TouchSizes : Touch(offset, size)

SpecTouch == InitCold(<<>>, {3}, 0) /\ [][NextTouch]_vars

\* ---------------------------------------------------------------- start-up
\* The cache directory and the metadata store when the process starts: any
\* of the files of CacheFiles has a .bin, the sidecars of WarmChunks exist
\* or not, and the store answers in any way for each id.
InitBoot ==
    \E bins \in SUBSET CacheFiles, warm \in SUBSET WarmChunks, rows \in [CacheFiles -> Rows] :
        /\ boot = [pc |-> "dir", todo |-> bins, bins |-> bins, rows |-> rows]
        /\ chunk_preload = <<>>
        /\ entries = [f \in Files |-> 0]
        /\ created = 0
        /\ db_files = {f \in CacheFiles : rows[f] # "none"} \cup (Files \ CacheFiles)
        /\ sw = IdleSweep
        /\ op = [o \in OpenIds |-> IdleOpen]
        /\ ld = IdleLoad
        /\ ra = IdleAhead
        /\ lk = IdleLink
        /\ fl = [a \in Flushers |-> IdleFlush]
        /\ pr = IdlePriority
        /\ tl = <<>>
        /\ cl = [c \in Clients |-> IdleClient]
        /\ cached = [k \in ChunkKeys |-> FALSE]
        /\ downloading = [k \in ChunkKeys |-> Free]
        /\ accessed_at_secs = [k \in ChunkKeys |-> 0]
        /\ disk = [k \in ChunkKeys |-> IF k \in warm /\ k[1] \in bins THEN "data" ELSE "hole"]
        /\ bin_exists = [f \in Files |-> f \in bins]
        /\ meta = [f \in Files |-> [exists |-> \E k \in warm : k[1] = f,
                                    cached |-> {i \in Indexes(f) : <<f, i>> \in warm}]]
        /\ duration_hint_secs = [f \in Files |-> 0]
        /\ readers = [f \in Files |-> <<>>]
        /\ rd = [r \in ReaderIds |-> IdleRead]
        /\ tasks = [t \in Tasks |-> NoTask]
        /\ permits = {}
        /\ ratelimited_until = 0
        /\ now = 0
        /\ failed = [open |-> {}, all |-> {}]
        /\ assert_failed = FALSE

NextBoot ==
    \/ \E f \in CacheFiles : BootEntry(f)
    \/ BootDone

SpecBoot == InitBoot /\ [][NextBoot]_vars

\* ------------------------------------------------------------ upsert_entry
InitOpen == InitCold(<<>>, {}, 0)

NextOpen ==
    \/ \E o \in OpenIds, f \in Files : OpenRead(o, f)
    \/ \E o \in OpenIds : OpenWrite(o)

SpecOpen == InitOpen /\ [][NextOpen]_vars

\* ------------------------------------------------------------- rate limiter
InitLimiter == InitCold(<<>>, {1}, 0)

NextLimiter ==
    \/ \E c \in Clients : RlCall(c)
    \/ \E c \in Clients : RlAcquire(c)
    \/ \E c \in Clients : RlWake(c)
    \/ \E c \in Clients, ratelimited \in BOOLEAN : RlRelease(c, ratelimited)
    \/ RlTick

SpecLimiter == InitLimiter /\ [][NextLimiter]_vars

\* ================================================================== claims
\* C1: a read_bytes call that is about to open the backing file, or has
\* opened it, has observed cached = true in wait_for_chunks on every chunk
\* that covers its byte range.
C1_ObservedBeforeOpen ==
    \A r \in ReaderIds :
        (rd[r].pc \in {"open", "read"} \/ rd[r].result \in {"Ok", "Io"})
            => necessary_chunks(r) \subseteq rd[r].observed

\* A read across two chunks that were downloaded for it returned Ok.
C1_Witness ==
    \E r \in ReaderIds :
        /\ rd[r].result = "Ok"
        /\ rd[r].spawned > 0
        /\ Cardinality(necessary_chunks(r)) = 2

\* C2: a read_bytes call that returns Ok returns, for every chunk under its
\* range, the bytes a download wrote there, never the content of a punched
\* or partially written extent.
C2_ReadsReturnDownloadedBytes ==
    \A r \in ReaderIds :
        rd[r].result = "Ok" => \A i \in 1 .. Len(rd[r].bytes) : rd[r].bytes[i] = "data"

\* C3: at most MAX_CONCURRENT_REQUESTS permits are out, and the permits out
\* are those of the callers that sleep on the penalty or run their attempt;
\* a caller beyond them has no permit.
C3_AtMostSixPermits ==
    /\ Cardinality(permits) <= MAX_CONCURRENT_REQUESTS
    /\ permits = {c \in Clients : cl[c].pc \in {"sleeping", "holding"}}

\* Six permits are out, one of them during a penalty sleep, and a seventh
\* caller is blocked in the acquisition.
C3_Witness ==
    /\ Cardinality(permits) = MAX_CONCURRENT_REQUESTS
    /\ \E c \in Clients : cl[c].pc = "sleeping"
    /\ \E c \in Clients : cl[c].pc = "acquire"

\* C4: queue_chunks never places a chunk that is already cached in a batch
\* it dispatches: the chunks of a batch that is being built, or that was
\* spawned and has not started its first attempt, are not cached.
C4_QueueSkipsCached ==
    \A t \in Tasks :
        (tasks[t].pc = "building" \/ (tasks[t].pc = "start" /\ tasks[t].attempts = 0))
            => \A c \in tasks[t].lo .. tasks[t].hi : ~cached[<<tasks[t].f, c>>]

\* C5: a read_bytes call that starts while the downloads another call
\* dispatched for the same uncached range are in flight dispatches no
\* download, as long as no download has failed.
C5_SecondReaderDispatchesNothing ==
    \A r \in ReaderIds :
        (rd[r].concurrent /\ failed.all = {}) => rd[r].spawned = 0

\* C6 as stated: a read_bytes call that was waiting for a chunk when the
\* download of the chunk failed fatally returns ChunkUnavailable.
C6_WaitersGetChunkUnavailable ==
    \A r \in ReaderIds :
        (rd[r].doomed # {} /\ rd[r].pc = "done") => rd[r].result = "ChunkUnavailable"

\* C6 amended: after a fatal failure the unpublished chunks of the batch
\* stay uncached with no download task owning their guard until a
\* queue_chunks call takes them again, and a read_bytes call that was waiting
\* for such a chunk returns ChunkUnavailable unless every such chunk was
\* taken again by a queue_chunks call.
C6_FatalFailure ==
    /\ \A k \in failed.open : ~cached[k] /\ downloading[k][1] # "task"
    /\ \A r \in ReaderIds :
          (rd[r].doomed # {} /\ rd[r].pc = "done" /\ rd[r].result # "ChunkUnavailable")
              => \A c \in rd[r].doomed : <<rd[r].f, c>> \notin failed.open

\* A call that was waiting when its download failed returned ChunkUnavailable.
C6_Witness ==
    \E r \in ReaderIds : rd[r].doomed # {} /\ rd[r].result = "ChunkUnavailable"

\* C7: the map holds one CacheEntry per file id that was asked for, no other
\* instance was ever created, and every upsert_entry call that returned got
\* the instance the map holds.
C7_OneEntryPerFile ==
    /\ created = Cardinality({f \in Files : entries[f] # 0})
    /\ \A o \in OpenIds :
          op[o].pc = "done" => op[o].got # 0 /\ op[o].got = entries[op[o].f]

\* Two calls returned the entry of a file while a third, which missed under
\* the read lock, is still before its second lookup.
C7_Witness ==
    \E o1, o2, o3 \in OpenIds :
        /\ o1 # o2
        /\ op[o1].pc = "done" /\ op[o2].pc = "done" /\ op[o3].pc = "write"
        /\ op[o1].f = op[o2].f /\ op[o2].f = op[o3].f

\* The chunks a pass collected that carry priority p.
Collected(p) == {sw.all_chunks[i].k : i \in {j \in 1 .. Len(sw.all_chunks) :
                                                sw.all_chunks[j].priority = p}}
Evicted == {sw.evicted[i].k : i \in 1 .. Len(sw.evicted)}

\* C8: a pass evicts from least to most retained (Low, Medium, High,
\* LastChunk, FirstChunk, Preloaded), the oldest accessed_at first among
\* equals, and evicts no FirstChunk or LastChunk chunk while a Low chunk it
\* collected is neither evicted nor skipped.
C8_EvictionOrder ==
    /\ \A i, j \in 1 .. Len(sw.evicted) :
          i < j =>
            \/ ChunkPriority[sw.evicted[i].priority] > ChunkPriority[sw.evicted[j].priority]
            \/ /\ sw.evicted[i].priority = sw.evicted[j].priority
               /\ accessed_at_secs[sw.evicted[i].k] <= accessed_at_secs[sw.evicted[j].k]
    /\ \A i \in 1 .. Len(sw.evicted) :
          sw.evicted[i].priority \in {"FirstChunk", "LastChunk"}
              => Collected("Low") \subseteq (Evicted \cup sw.skipped)

\* C9: a pass evicts no chunk whose priority was GracePeriod when the pass
\* collected it.
C9_GracePeriodNotEvicted ==
    \A i \in 1 .. Len(sw.evicted) : sw.evicted[i].priority # "GracePeriod"

\* C10 as stated: when a pass has completed, the cached chunks sum to less
\* than cache_max_size or all of them are GracePeriod or Preloaded.
C10_PostSweepBelowMax ==
    sw.returned =>
        \/ SumSizes({x.k : x \in sw.post}) < cache_max_size
        \/ \A x \in sw.post : x.priority \in {"GracePeriod", "Preloaded"}

\* C10 amended: when a pass has completed, the chunks it collected and did
\* not evict sum to less than cache_max_size, or each of them is GracePeriod
\* or Preloaded or was skipped because its guard was held.
C10_PostSweepCollectedBelowMax ==
    sw.returned =>
        LET rest == {i \in 1 .. Len(sw.all_chunks) : sw.all_chunks[i].k \notin Evicted}
        IN  \/ SumSizes({sw.all_chunks[i].k : i \in rest}) < cache_max_size
            \/ \A i \in rest :
                  \/ sw.all_chunks[i].priority \in {"GracePeriod", "Preloaded"}
                  \/ sw.all_chunks[i].k \in sw.skipped

\* A pass that found the cache at cache_max_size has completed after
\* evicting chunks.
C10_Witness ==
    /\ sw.returned
    /\ Len(sw.evicted) > 0
    /\ sw.total_size_bytes + sw.total_removed_bytes >= cache_max_size

\* C11: CacheEntry::try_remove deletes the files and lets the sweeper take the
\* entry out of the map only while the sweeper holds every chunk guard of the
\* entry, and then <id>.bin and <id>.cachemeta are both gone; a call that
\* finds a guard held by another task reports busy, leaves files, cached
\* flags and the map as they are, gives back the guards it took and lets the
\* sweeper go on with the entry.
C11_TryRemoveAllOrNothing ==
    [][ /\ sw.pc \in {"rm_bin", "rm_meta"}
            => \A c \in Indexes(Head(sw.todo)) : downloading[<<Head(sw.todo), c>>] = BySweeper
        /\ \A f \in Files :
              (entries[f] # 0 /\ entries'[f] = 0)
                  => /\ \A c \in Indexes(f) : downloading[<<f, c>>] = BySweeper
                     /\ ~bin_exists'[f] /\ ~meta'[f].exists
        /\ (sw.pc = "rm_lock" /\ sw'.busy)
              => /\ \E c \in Indexes(Head(sw.todo)) :
                        downloading[<<Head(sw.todo), c>>] \notin {Free, BySweeper}
                 /\ bin_exists' = bin_exists /\ meta' = meta /\ disk' = disk
                 /\ cached' = cached /\ entries' = entries
                 /\ \A k \in ChunkKeys :
                        downloading'[k] = IF downloading[k] = BySweeper THEN Free
                                          ELSE downloading[k]
                 /\ sw'.pc = "scan" /\ sw'.todo = sw.todo
      ]_vars

\* try_remove of an entry reported busy in one pass and removed the entry in
\* a later one.
C11_Witness ==
    \E f \in Files : <<f, "busy">> \in sw.tried /\ <<f, "removed">> \in sw.tried

\* C12: under every chunk with cached = true the extent of the backing file
\* holds the bytes a download wrote, not a hole and not a partly written
\* extent.
C12_CachedImpliesWritten ==
    \A k \in ChunkKeys : cached[k] => disk[k] = "data"

\* The read_bytes call r on file f for (offset, size) has left queue_chunks.
Queued(r, f, offset, size) ==
    /\ rd[r].f = f /\ rd[r].offset = offset /\ rd[r].size = size
    /\ rd[r].pc \notin {"idle", "q_load", "q_lock"}

\* C13: with chunk_preload = (4, 1) on the cold file of 10 chunks,
\* read_bytes(0, 4 KiB) queues the chunks {0} and {1, 2, 3, 4, 9} and no
\* read-ahead chunk, and dispatches two batches, chunks 0..4 and chunk 9.
C13_PreloadExample ==
    \A r \in ReaderIds :
        (chunk_preload = <<4, 1>> /\ Queued(r, 3, 0, 4))
            => /\ rd[r].queued = {0, 1, 2, 3, 4, 9}
               /\ rd[r].batches = {<<0, 4>>, <<9, 9>>}

\* C14: on the cold file of 4 chunks without duration hint, read_bytes(0,
\* 1 MiB) queues chunk 0 and the read-ahead chunks 1 and 2 and dispatches one
\* download, which requests the first 24 MiB of the file; when the download
\* is over chunks 0..2 are cached.
C14_ReadAheadExample ==
    \A r \in ReaderIds :
        (chunk_preload = <<>> /\ Queued(r, 4, 0, 1024))
            => /\ rd[r].queued = {0, 1, 2}
               /\ Cardinality(rd[r].batches) = 1
               /\ \A t \in Tasks :
                     tasks[t].pc # "none"
                        => /\ chunk_offset(tasks[t].lo) = 0
                           /\ chunk_offset(tasks[t].lo) + expected_length(t)
                                 = 3 * DEFAULT_CHUNK_SIZE
               /\ (\A t \in Tasks : tasks[t].pc = "none")
                     => \A c \in 0 .. 2 : cached[<<4, c>>]

\* C15: a download whose attempt was answered 429 with a retry hint of h
\* seconds has set the penalty deadline of the rate limiter 5 seconds ahead
\* and starts its next attempt no earlier than h seconds after the answer;
\* the next attempt streams the whole range again, and when it has streamed
\* the full body every chunk of the batch is cached and the task still owns
\* the guards it is about to release.
C15_RetryAfterHint ==
    \A t \in Tasks :
        (tasks[t].pc # "none" /\ tasks[t].hint \in Hints)
            => /\ tasks[t].pc = "backoff"
                    => /\ tasks[t].sleep = tasks[t].hint
                       /\ \/ ratelimited_until >= tasks[t].since + RATELIMIT_PENALTY_SECS
                          \/ now >= tasks[t].since + RATELIMIT_PENALTY_SECS
               /\ tasks[t].pc # "backoff"
                    => now >= tasks[t].since + tasks[t].hint
               /\ (tasks[t].pc = "stream" /\ tasks[t].written = batch_len(t))
                    => \A c \in tasks[t].lo .. tasks[t].hi :
                          /\ cached[<<tasks[t].f, c>>]
                          /\ disk[<<tasks[t].f, c>>] = "data"
                          /\ downloading[<<tasks[t].f, c>>] = ByTask(t)

\* A read_bytes call returned Ok from chunks whose download was answered 429
\* with a hint and succeeded at the second attempt.
C15_Witness ==
    /\ \E r \in ReaderIds : rd[r].result = "Ok" /\ rd[r].spawned > 0
    /\ \E t \in Tasks : /\ tasks[t].hint \in Hints /\ tasks[t].attempts = 2
                         /\ tasks[t].pc = "stream" /\ tasks[t].written = batch_len(t)

RECURSIVE SumSeq(_)
\* The sum of the size fields of a sequence of chunks.
SumSeq(chunks) ==
    IF chunks = <<>> THEN 0
    ELSE chunks[Len(chunks)].size + SumSeq(SubSeq(chunks, 1, Len(chunks) - 1))

\* C16: the chunk vector CacheEntry::load built for a file of size S > 0 has
\* ceil(S / C) chunks, its last chunk has size S mod C, or C when S is a
\* multiple of C, no chunk has size 0 and the sizes sum to S.
C16_ChunkSizes ==
    ld.pc = "done" =>
        LET n == Len(ld.chunks)
            S == ld.size
        IN  /\ n * DEFAULT_CHUNK_SIZE >= S /\ (n - 1) * DEFAULT_CHUNK_SIZE < S
            /\ ld.chunks[n].size = IF S % DEFAULT_CHUNK_SIZE # 0 THEN S % DEFAULT_CHUNK_SIZE
                                                                 ELSE DEFAULT_CHUNK_SIZE
            /\ \A i \in 1 .. n : ld.chunks[i].size > 0
            /\ SumSeq(ld.chunks) = S

\* C17: a wait() call that holds its permit and finds a penalty deadline in
\* the future sleeps on that deadline and returns the permit only when the
\* clock has reached it; a call that finds no deadline, or one that is not
\* in the future, returns in the step in which it gets its permit.
C17_AcquireHonoursPenalty ==
    [][ \A c \in Clients :
          /\ (cl[c].pc = "acquire" /\ cl'[c].pc # "acquire")
                => /\ c \in permits'
                   /\ IF ratelimited_until > 0 /\ now < ratelimited_until
                      THEN cl'[c].pc = "sleeping" /\ cl'[c].sleep = ratelimited_until
                      ELSE cl'[c].pc = "holding"
          /\ (cl[c].pc = "sleeping" /\ cl'[c].pc # "sleeping")
                => cl'[c].pc = "holding" /\ now >= cl[c].sleep /\ c \in permits'
      ]_vars

\* A caller has slept until the penalty deadline it found and is about to
\* return, while another caller that found no deadline ahead has returned.
C17_Witness ==
    /\ \E c \in Clients : cl[c].pc = "sleeping" /\ cl[c].sleep > 0 /\ now >= cl[c].sleep
    /\ \E c \in Clients : cl[c].pc = "holding"

\* C18: a chunk that the sidecar lists as cached while its extent is absent
\* from the backing file is downloaded before a read that covers it reaches
\* the file: a read_bytes call that opens the file, reads it or has returned
\* from it finds downloaded bytes under every chunk of its range.
C18_LostExtentIsDownloaded ==
    \A r \in ReaderIds :
        (rd[r].pc \in {"open", "read"} \/ rd[r].result \in {"Ok", "Io"})
            => \A c \in necessary_chunks(r) : disk[<<rd[r].f, c>>] = "data"

\* C19: without duration hint the read-ahead trigger is 3 chunks and the
\* target 8 chunks.  With a hint d > 0, bytes_per_sec is the floor of
\* file_size / d and seconds_read the floor of bytes_read / bytes_per_sec,
\* the tier is the highest one whose after_reading_secs is at most
\* seconds_read, the trigger is the floor of bytes_per_sec *
\* when_secs_until_uncached / C but at least 1, the target the floor of
\* bytes_per_sec * then_buffer_secs / C but at least 2; for d = 7200, a
\* file of 7.2 GiB and 40 MiB read this is the second tier and 15 chunks.
C19_ReadAheadSizing ==
    ra.pc = "done" =>
        LET bps == ra.bytes_per_sec
            q == ra.size \div ra.hint
            r == ra.size % ra.hint
            tier == READ_AHEAD_TIERS[ra.tier]
            C == 1024 * DEFAULT_CHUNK_SIZE
        IN  /\ ra.hint = 0 => ra.trigger = 3 /\ ra.target = 8
            /\ ra.hint > 0 =>
                  /\ (bps - 1024 * q) * ra.hint <= 1024 * r
                  /\ (bps - 1024 * q + 1) * ra.hint > 1024 * r
                  /\ ra.seconds_read * bps <= 1024 * ra.bytes_read
                  /\ (ra.seconds_read + 1) * bps > 1024 * ra.bytes_read
                  /\ tier.after_reading_secs <= ra.seconds_read
                  /\ \A j \in (ra.tier + 1) .. Len(READ_AHEAD_TIERS) :
                        READ_AHEAD_TIERS[j].after_reading_secs > ra.seconds_read
                  /\ ra.trigger >= 1 /\ ra.target >= 2
                  /\ ra.trigger > 1 => ra.trigger * C <= bps * tier.when_secs_until_uncached
                  /\ (ra.trigger + 1) * C > bps * tier.when_secs_until_uncached
                  /\ ra.target > 2 => ra.target * C <= bps * tier.then_buffer_secs
                  /\ (ra.target + 1) * C > bps * tier.then_buffer_secs
            /\ (ra.hint = 7200 /\ ra.size = 7549747 /\ ra.bytes_read = 40960)
                  => ra.tier = 2 /\ ra.target = 15

\* The read-ahead was sized for a hint of 7200 s, 7.2 GiB and 40 MiB read.
C19_Witness ==
    /\ ra.pc = "done" /\ ra.hint = 7200 /\ ra.size = 7549747 /\ ra.bytes_read = 40960
    /\ ra.target = 15

\* The chunks of the batch of download task t, none when t is not running.
Batch(t) ==
    IF tasks[t].pc = "none" THEN {}
    ELSE {<<tasks[t].f, c>> : c \in tasks[t].lo .. tasks[t].hi}

\* C20: no chunk belongs to the batches of two download tasks that are in
\* flight, so that no two tasks write the extent of a chunk at the same
\* time, and while the sweeper evicts a chunk, between taking its guard and
\* dropping it, no download task in flight has the chunk in its batch.
C20_GuardsExclusive ==
    /\ \A t1, t2 \in Tasks : t1 # t2 => Batch(t1) \cap Batch(t2) = {}
    /\ sw.pc \in {"punch", "clear"}
          => \A t \in Tasks : sw.all_chunks[sw.idx].k \notin Batch(t)

\* C21: a read_bytes call fails with ChunkUnavailable for chunk c only if a
\* download task that held the guard of c ended fatally without publishing c.
C21_UnavailableOnlyAfterFailure ==
    \A r \in ReaderIds :
        rd[r].result = "ChunkUnavailable"
            => <<rd[r].f, Head(rd[r].wait)>> \in failed.all

\* C22: every batch queue_chunks builds or has handed to the downloader is
\* not empty, is a run of consecutive indexes whose guards the batch holds,
\* and no chunk was cached at the moment its guard was taken, so that the
\* assertion of queue_chunks never fails.
C22_BatchesWellFormed ==
    /\ ~assert_failed
    /\ \A t \in Tasks :
          tasks[t].pc # "none"
              => /\ tasks[t].lo <= tasks[t].hi
                 /\ \A c \in tasks[t].lo .. tasks[t].hi :
                       downloading[<<tasks[t].f, c>>] = ByTask(t)

\* C23: within one download attempt the chunks of the batch are published in
\* ascending index order, each one only after its extent and the extents of
\* the chunks before it were written: a step that publishes a chunk
\* publishes the first chunk of the batch that this attempt has not yet
\* published, the bytes of that chunk are in the file, and all chunks of the
\* batch that the attempt has published, and so all before the new one, are
\* cached.
C23_PublishInOrder ==
    [][\A t \in Tasks :
          /\ (tasks[t].pc = "publish" /\ tasks'[t] # tasks[t])
                => LET f == tasks[t].f
                       c == tasks[t].lo + tasks[t].k
                   IN  /\ tasks'[t].k = tasks[t].k + 1
                       /\ tasks[t].k < tasks[t].written
                       /\ \A k \in ChunkKeys :
                             cached'[k] # cached[k] => k = <<f, c>>
                       /\ cached'[<<f, c>>]
                       /\ \A i \in tasks[t].lo .. c :
                             chunk_size(f, i) > 0 => disk[<<f, i>>] = "data"
          /\ tasks'[t].pc \in {"stream", "publish"}
                => \A i \in 0 .. (tasks'[t].k - 1) :
                      cached'[<<tasks'[t].f, tasks'[t].lo + i>>]]_vars

\* A download attempt on a batch of two chunks has published both.
C23_Witness ==
    \E t \in Tasks :
        /\ tasks[t].pc = "stream" /\ tasks[t].k = 2
        /\ \A c \in tasks[t].lo .. tasks[t].hi : cached[<<tasks[t].f, c>>]

\* C24: a read_bytes call waits for its covering chunks only and goes on to
\* the backing file as soon as it has seen each of them cached, also while
\* the download task still holds the guards of the batch and later chunks of
\* the batch are not cached; having seen its covering chunks cached it
\* returns their bytes, whatever happens to the other chunks it queued.
C24_HeadReturnsEarly ==
    \A r \in ReaderIds :
        LET cover == start_chunk_index(r) .. end_chunk_index(r)
        IN  /\ rd[r].pc \in {"w_lock", "w_load"}
                  => /\ \A i \in 1 .. Len(rd[r].wait) : rd[r].wait[i] \in cover
                     /\ rd[r].wait # <<>>
            /\ rd[r].pc \in {"open", "read"} => rd[r].observed = cover
            /\ (rd[r].pc = "done" /\ rd[r].observed = cover)
                  => /\ rd[r].result = "Ok"
                     /\ \A i \in 1 .. Len(rd[r].bytes) : rd[r].bytes[i] = "data"

\* A call returned the bytes of chunk 0 while the download task of its batch
\* still holds the guards of chunks 0 and 1 and chunk 1 is not cached.
C24_Witness ==
    \E r \in ReaderIds, t \in Tasks :
        /\ rd[r].pc = "done" /\ rd[r].result = "Ok"
        /\ start_chunk_index(r) = 0 /\ end_chunk_index(r) = 0
        /\ tasks[t].pc = "stream" /\ tasks[t].f = rd[r].f
        /\ tasks[t].lo = 0 /\ tasks[t].hi = 1
        /\ \A c \in 0 .. 1 : downloading[<<rd[r].f, c>>] = ByTask(t)
        /\ ~cached[<<rd[r].f, 1>>]

\* C25: every dispatched download task eventually ends and then holds no
\* guard, whatever the server answers.
C25_DownloadTerminates ==
    \A t \in Tasks :
        (tasks[t].pc \notin {"none", "building"})
            ~> (tasks[t].pc = "none" /\ \A k \in ChunkKeys : downloading[k] # ByTask(t))

\* C26: a download that sleeps after an error without a retry hint, the n-th
\* error of its classification in this download, sleeps for the n-th entry
\* of that classification's schedule, whatever other errors came before.
C26_ScheduleByClassification ==
    \A t \in Tasks :
        (tasks[t].pc = "backoff" /\ tasks[t].hint = None)
            => LET c == tasks[t].last
                   n == tasks[t].errs[c]
               IN  /\ n \in 1 .. Len(schedule(c))
                   /\ tasks[t].sleep = schedule(c)[n]

\* C27: a download whose errors so far were all transient statuses sleeps
\* 1, 5 and 30 s after the first, second and third of them and never after a
\* fourth; no download sleeps after another status than 429 or a transient
\* one, or after a local I/O error; a download that has ended has no
\* request in flight.
C27_TransientSchedule ==
    \A t \in Tasks :
        /\ (/\ tasks[t].pc = "backoff"
            /\ tasks[t].last = <<"ResponseError", 1>>
            /\ \A c \in Retryable \ {<<"ResponseError", 1>>} : tasks[t].errs[c] = 0)
              => /\ tasks[t].errs[<<"ResponseError", 1>>] \in 1 .. 3
                 /\ tasks[t].sleep = <<1, 5, 30>>[tasks[t].errs[<<"ResponseError", 1>>]]
        /\ tasks[t].pc = "backoff"
              => tasks[t].last \in {<<"Ratelimited", 0>>, <<"FetchError", 0>>,
                                    <<"ResponseError", 1>>, <<"StreamError", 0>>}
        /\ tasks[t].pc = "none" => t \notin permits

\* The fourth request of a download whose first three were answered with
\* transient statuses is in flight.
C27_Witness ==
    \E t \in Tasks :
        /\ tasks[t].pc = "send" /\ tasks[t].attempts = 4
        /\ tasks[t].errs[<<"ResponseError", 1>>] = 3
        /\ \A c \in Retryable \ {<<"ResponseError", 1>>} : tasks[t].errs[c] = 0

\* C28: when queue_chunks of a read_bytes call that began after a download
\* had ended fatally tries the guard of a chunk that download left
\* unpublished and no call has taken since, the chunk is not cached, the
\* call gets the guard and the chunk goes into a batch of a new download.
C28_FailureNotSticky ==
    [][\A r \in ReaderIds :
          LET k == <<rd[r].f, Head(rd[r].queue)>>
          IN  (/\ rd[r].pc = "q_lock" /\ rd'[r] # rd[r]
               /\ k \in failed.open /\ k[2] \in rd[r].retry)
                  => /\ ~cached[k]
                     /\ \E t \in Tasks : /\ downloading'[k] = ByTask(t)
                                          /\ tasks'[t].pc \in {"building", "start"}
                                          /\ tasks'[t].lo <= k[2] /\ k[2] <= tasks'[t].hi]_vars

\* C29: a try_remove that finds the guard of the chunk held changes neither
\* the file, nor cached, nor the sidecar, nor the guard, and counts nothing
\* as evicted; the sweeper punches and clears only a chunk whose guard it
\* holds itself, and every extent that becomes a hole does so under the
\* sweeper's guard.
C29_EvictionUnderGuard ==
    [][LET k == sw.all_chunks[sw.idx].k
       IN  /\ (sw.pc = "try_lock" /\ sw' # sw /\ downloading[k] # Free)
                  => /\ disk' = disk /\ cached' = cached /\ meta' = meta
                     /\ downloading' = downloading
                     /\ sw'.evicted = sw.evicted /\ sw'.pc \in {"try_lock", "sleep"}
           /\ (sw.pc = "punch" /\ sw' # sw) => downloading[k] = BySweeper
           /\ (sw.pc = "clear" /\ sw' # sw)
                  => downloading[k] = BySweeper /\ cached[k] /\ ~cached'[k]
           /\ \A x \in ChunkKeys :
                  (disk[x] # "hole" /\ disk'[x] = "hole") => downloading[x] = BySweeper]_vars

\* A pass has evicted a chunk and has skipped another, which is still cached
\* and whose guard a download task still holds.
C29_Witness ==
    /\ sw.evicted # <<>>
    /\ \E k \in sw.skipped : cached[k] /\ downloading[k][1] = "task"

\* C30: in every step that changes the cached flag of a chunk of an entry,
\* the flag becomes true in the publishing loop of a download task that
\* holds the chunk's guard before and after the step, or becomes false in
\* Chunk::try_remove of the sweeper, which holds the guard.
C30_CachedUnderGuard ==
    [][\A k \in ChunkKeys :
          (cached'[k] # cached[k] /\ entries'[k[1]] = entries[k[1]])
              => IF cached'[k]
                 THEN \E t \in Tasks : /\ tasks[t].pc = "publish"
                                       /\ tasks[t].f = k[1] /\ current_chunk(t) = k[2]
                                       /\ downloading[k] = ByTask(t)
                                       /\ downloading'[k] = ByTask(t)
                 ELSE sw.pc = "clear" /\ sw.all_chunks[sw.idx].k = k
                      /\ downloading[k] = BySweeper]_vars

\* The sweeper has evicted a chunk and a download has published a chunk
\* that was not cached when the cache was loaded.
C30_Witness ==
    /\ \E i \in 1 .. Len(sw.evicted) : ~cached[sw.evicted[i].k]
    /\ \E k \in ChunkKeys \ WarmChunks : cached[k]

\* C31: a chunk covered by a read_bytes call that began at time t and has
\* returned its bytes has accessed_at >= t, and a pass of the sweeper that collects the
\* chunk less than cache_grace_period_secs after t gives it GracePeriod.
C31_ReadRefreshesAccess ==
    \A r \in ReaderIds :
        (rd[r].pc = "done" /\ rd[r].result = "Ok")
            => \A c \in start_chunk_index(r) .. end_chunk_index(r) :
                  /\ accessed_at_secs[<<rd[r].f, c>>] >= rd[r].at
                  /\ \A i \in 1 .. Len(sw.all_chunks) :
                        (/\ sw.pc # "sleep"
                         /\ sw.all_chunks[i].k = <<rd[r].f, c>>
                         /\ now - rd[r].at < cache_grace_period_secs)
                            => sw.all_chunks[i].priority = "GracePeriod"

\* C32: a download task holds a permit exactly from the return of
\* Ratelimiter::wait's acquire to the end of the attempt: none before the
\* acquire, none in retry backoff and none after the task has ended; with no
\* attempt in progress all MAX_CONCURRENT_REQUESTS permits are available.
C32_NoPermitLeak ==
    /\ \A t \in Tasks :
          t \in permits <=> tasks[t].pc \in {"rl_sleep", "send", "stream", "publish"}
    /\ (\A t \in Tasks : tasks[t].pc \in {"none", "building", "start", "wait", "backoff"})
          => MAX_CONCURRENT_REQUESTS - Cardinality(permits) = 6

\* A download that was answered 429 earlier sleeps in backoff after a broken
\* body, and no permit is taken.
C32_Witness ==
    /\ \E t \in Tasks : /\ tasks[t].pc = "backoff"
                         /\ tasks[t].last = <<"StreamError", 0>>
                         /\ tasks[t].errs[<<"Ratelimited", 0>>] > 0
    /\ permits = {}

\* C33: at most one call for the key has its resolve request in flight; a
\* call that looks the key up under the mutex while an item that has not
\* expired is cached returns that item's URL and sends no request; a call
\* that returned a cached URL did so at a time not past the item's expiry.
C33_OneResolveInFlight ==
    [][/\ Cardinality({i \in Callers : lk'.c[i].pc = "request"}) <= 1
       /\ \A i \in Callers :
             /\ (/\ lk.c[i].pc = "second" /\ lk'.c[i] # lk.c[i]
                 /\ lk.cache # <<>> /\ lk.cache.expires_at >= now)
                   => /\ lk'.c[i].pc = "done" /\ lk'.c[i].got = lk.cache.url
                      /\ lk'.c[i].sent = 0
             /\ (lk'.c[i].pc = "done" /\ lk'.c[i].sent = 0)
                   => lk'.c[i].at <= lk'.c[i].until]_vars

\* Two calls waited for the mutex while a third resolved the link, and all
\* three returned the one link the server issued.
C33_Witness ==
    /\ lk.issued = 1
    /\ \A i \in Callers : lk.c[i].pc = "done" /\ lk.c[i].got = 1 /\ lk.c[i].locked
    /\ Cardinality({i \in Callers : lk.c[i].sent = 0}) = NumCallers - 1

\* C34: a flush of the sidecar that fails, at File::create or at a write,
\* leaves the operation that called it running: the download task goes on
\* to the next chunk of its publishing loop, the sweeper accounts for the
\* chunk as removed.
C34_FlushFailureNotFatal ==
    [][\A a \in Flushers :
          (fl'[a] # fl[a] /\ fl'[a].result \in {"Err", "Panic"})
             => IF a = 0
                THEN sw' = after_try_remove(sw, TRUE)
                ELSE /\ tasks'[a].pc \in {"publish", "stream"}
                     /\ tasks'[a].k = tasks[a].k + 1]_vars

\* No download task, eviction or flush is in progress.
Quiescent ==
    /\ \A t \in Tasks : tasks[t].pc = "none"
    /\ \A a \in Flushers : fl[a].pc = "idle"
    /\ sw.pc = "sleep"

\* C35: once the downloads, the evictions and their flushes have finished,
\* the sidecar of every entry lists as cached exactly the chunks whose
\* in-memory cached flag is set.
C35_SidecarMatchesFlags ==
    Quiescent => \A f \in CacheFiles :
                    meta[f].cached = {i \in Indexes(f) : cached[<<f, i>>]}

\* C36: a CacheEntry::try_remove call that finds <id>.bin or <id>.cachemeta
\* missing does not end the pass: the sweeper goes on with the remaining
\* entries and reaches the size check.
C36_PassSurvivesMissingFiles ==
    [][sw.pc \in {"rm_bin", "rm_meta"} => ~sw'.error]_vars

\* C37: when Cache::load has returned, every <id>.bin that was in the cache
\* directory and whose file has no row, no torrent or a torrent without
\* remote id is gone together with its sidecar and has no entry; every
\* other <id>.bin has its entry under the file id.
C37_LoadDropsStaleFiles ==
    boot.pc = "done" =>
        \A f \in boot.bins :
            IF boot.rows[f] = "ok"
            THEN entries[f] = f /\ bin_exists[f]
            ELSE ~bin_exists[f] /\ ~meta[f].exists /\ entries[f] = 0

\* C38: get_priority returns the priority of the first rule that matches:
\* GracePeriod within the grace period, FirstChunk for index 0, LastChunk
\* for the last index, Preloaded for index <= head or index >= total - tail,
\* and otherwise the band of the percent position of the chunk's centre,
\* High for 0..20, Low for 21..95, Medium for 96..100; it never panics.
C38_PriorityByFirstRule ==
    pr.pc = "done" =>
        LET f == pr.k[1]
            index == pr.k[2]
            total == total_chunks(f)
            age == IF pr.t >= accessed_at_secs[pr.k] THEN pr.t - accessed_at_secs[pr.k]
                   ELSE accessed_at_secs[pr.k] - pr.t
            p == ((chunk_offset(index) + chunk_size(f, index) \div 2) * 100) \div file_size(f)
        IN  pr.priority =
               IF age < cache_grace_period_secs THEN "GracePeriod"
               ELSE IF index = 0 THEN "FirstChunk"
               ELSE IF index = total - 1 THEN "LastChunk"
               ELSE IF chunk_preload # <<>>
                       /\ (index <= chunk_preload[1] \/ index >= total - chunk_preload[2])
               THEN "Preloaded"
               ELSE IF p <= 20 THEN "High"
               ELSE IF p <= 95 THEN "Low"
               ELSE "Medium"

\* The sum of bytes_read over a list of readers.
SumBytesRead(list) ==
    LET sum[i \in 0 .. Len(list)] == IF i = 0 THEN 0 ELSE sum[i - 1] + list[i].bytes_read
    IN  sum[Len(list)]

\* The sum of the sizes of the calls.
SumTouched(calls) ==
    LET sum[i \in 0 .. Len(calls)] == IF i = 0 THEN 0 ELSE sum[i - 1] + calls[i].size
    IN  sum[Len(calls)]

\* C39: a get_reader(offset, size) call updates the first reader of the list
\* whose position is at most 16 MiB from offset (position becomes
\* offset + size, bytes_read grows by size) and leaves the others as they
\* are, or, if there is none, appends a reader with position offset + size
\* and bytes_read size; so the list never shrinks, no bytes_read decreases,
\* and the bytes_read of all readers add up to the sizes of all calls.
C39_TouchUpdatesFirstMatch ==
    [][LET old == readers[3]
           new == readers'[3]
           call == tl'[Len(tl')]
           near(i) == \/ old[i].position - call.offset \in 0 .. MAX_READER_MERGE_GAP
                      \/ call.offset - old[i].position \in 0 .. MAX_READER_MERGE_GAP
           first == {i \in 1 .. Len(old) : near(i) /\ \A j \in 1 .. (i - 1) : ~near(j)}
       IN  /\ Len(new) >= Len(old)
           /\ \A i \in 1 .. Len(old) : new[i].bytes_read >= old[i].bytes_read
           /\ SumBytesRead(new) = SumTouched(tl')
           /\ IF first # {}
              THEN /\ Len(new) = Len(old)
                   /\ \A i \in 1 .. Len(old) :
                         new[i] = IF i \in first
                                  THEN [position |-> call.offset + call.size,
                                        bytes_read |-> old[i].bytes_read + call.size]
                                  ELSE old[i]
              ELSE new = Append(old, [position |-> call.offset + call.size,
                                      bytes_read |-> call.size])]_vars

\* The third call was within 16 MiB of both readers and went to the first.
C39_Witness ==
    /\ Len(tl) = 3
    /\ Len(readers[3]) = 2
    /\ readers[3][1] = [position |-> tl[3].offset + tl[3].size,
                        bytes_read |-> tl[1].size + tl[3].size]
    /\ readers[3][2].position - tl[3].offset \in 0 .. MAX_READER_MERGE_GAP

\* C40: for a file of size S >= 1 with a duration hint d > 0 the sizing of
\* the read-ahead is defined: the call computes bytes_per_sec = S / d and
\* seconds_read = bytes_read / bytes_per_sec and returns, also when S < d.
C40_ReadAheadDefined ==
    (ra.pc # "idle" /\ ra.hint > 0 /\ ra.size >= 1) => ra.pc = "done"

====
